---- MODULE Spec2Model ----
(***************************************************************************)
(* Model of the gothink session/storage core (internal/storage/storage.go) *)
(* and of the handlers that drive it.                                      *)
(*                                                                         *)
(* Every storage operation is a sequence of steps, one per critical        *)
(* section or unlocked access of the Go code; a caller (a goroutine        *)
(* serving one request) is a process with a program counter pc, a stack of *)
(* return labels stk and locals loc.  Session records are heap objects     *)
(* (the session map holds pointers), so a pointer obtained by getSession   *)
(* keeps naming the same record after CreateSession has replaced the map   *)
(* entry.                                                                  *)
(*                                                                         *)
(* The specifications share all actions: in Spec one caller runs its       *)
(* operations one after the other, in SpecConc every caller runs one       *)
(* operation and their steps interleave; the others take the tools, the    *)
(* configuration and single scenarios of the store in turn.                *)
(***************************************************************************)
EXTENDS Integers, Sequences, FiniteSets, TLC

\* ------------------------------------------------------------------ bounds
MaxOps == 2
MaxTime == 1

\* ------------------------------------------------------------------ inputs
Procs == {"p1", "p2"}
Caps == {-1, 0, 1, 2}
SessionIDs == {"s1", "s2"}
ThoughtTexts == {"a"}
ThoughtNumbers == {1, 2}
TotalThoughtsVals == {1}
ModelNames == {"first_principles"}
Problems == {"x"}

None == "none"
NoID == <<>>
NoRef == 0

VARIABLES
    environ,            \* the environment of the process, as config.Load reads it
    cfgMax,             \* config.MaxThoughtsPerSession
    now,                \* the clock read by time.Now()
    thoughts,           \* Storage.thoughts: ID -> ThoughtData
    mentalModels,       \* Storage.mentalModels: ID -> MentalModelData
    sessions,           \* Storage.sessions: session id -> pointer (index into heap)
    heap,               \* the SessionData objects ever allocated
    thoughtsMutex, mentalModelsMutex, sessionsMutex,
    pc, stk, loc,       \* per caller: position, return labels, locals
    crashed,            \* the Go runtime stopped the process (concurrent map access)
    opsLeft,            \* per caller: operations it may still start
    histT, histM,       \* history: per session, the records successfully appended
    prevStats, prevExport,  \* history: per session, the last statistics / export returned
    dirtyAny, dirtyOwn  \* history: per session, a write (to any / to this session) since then

vars == <<environ, cfgMax, now, thoughts, mentalModels, sessions, heap,
          thoughtsMutex, mentalModelsMutex, sessionsMutex, pc, stk, loc,
          crashed, opsLeft, histT, histM, prevStats, prevExport, dirtyAny, dirtyOwn>>

store == <<thoughts, mentalModels, sessions, heap>>
locks == <<thoughtsMutex, mentalModelsMutex, sessionsMutex>>
hist == <<histT, histM, prevStats, prevExport, dirtyAny, dirtyOwn>>
env == <<environ, cfgMax, crashed>>

\* ------------------------------------------------------------------ helpers
FreeMutex == [w |-> None, r |-> {}]
CanLock(m) == m.w = None /\ m.r = {}
\* a faulty read lock, which does not wait for the writer
CanRLockNoWait(m) == TRUE
CanRLock(m) == m.w = None
Lock(m, p) == [m EXCEPT !.w = p]
RLock(m, p) == [m EXCEPT !.r = @ \cup {p}]
\* a faulty read unlock, which leaves the reader in
RUnlockKept(m, p) == m
RUnlock(m, p) == [m EXCEPT !.r = @ \ {p}]

\* a map with one entry added or replaced (Go: m[k] = v)
Put(m, k, v) == [x \in DOMAIN m \cup {k} |-> IF x = k THEN v ELSE m[x]]

\* the enumerations of a set, each element once
Orders(S) ==
    LET n == Cardinality(S)
    IN  {g \in [1..n -> S] : \A i, j \in 1..n : i # j => g[i] # g[j]}

\* the values of a map in some iteration order (Go: for _, v := range m)
RangeOrders(m) == {[i \in 1..Len(f) |-> m[f[i]]] : f \in Orders(DOMAIN m)}

SeqToSet(s) == {s[i] : i \in 1..Len(s)}

NoLoc == [op |-> None, sid |-> None, rec |-> None, req |-> None, sess |-> NoRef,
          since |-> 0,
          ths |-> <<>>, mms |-> <<>>, err |-> None, ret |-> [kind |-> None]]

\* a caller's step may run: the process is alive
Sched(p) == ~crashed

\* time.Now(): the clock has not gone back since it was last read.  The reads
\* of one step (a few statements apart) return one value; between steps the
\* clock may have advanced
MinOf(a, b) == IF a < b THEN a ELSE b
MaxOf(a, b) == IF a > b THEN a ELSE b
ClockReads(from) == from..MinOf(from + 1, MaxTime)

\* a clock value that was read at some moment after the reading from and is
\* used only now: the callers between the read and the use may have moved the
\* clock on
StaleReads(from) == from..MinOf(now + 1, MaxTime)

\* the clock as getSession's caller finds it on return, kept for AddMentalModel,
\* which reads the clock next (line 122) and stores the value outside the
\* session lock
Arrival(p, t) == IF Head(stk[p]) = "AM_update" THEN t ELSE 0

\* return to the caller: pop the return label
Return(p) ==
    /\ pc' = [pc EXCEPT ![p] = Head(stk[p])]
    /\ stk' = [stk EXCEPT ![p] = Tail(stk[p])]

\* SessionData as CreateSession and getSession build it
NewSession(id, t) ==
    [ID |-> id, CreatedAt |-> t, LastAccessedAt |-> t, ThoughtCount |-> 0,
     ToolsUsed |-> <<>>, TotalOperations |-> 0, IsActive |-> TRUE,
     RemainingThoughts |-> cfgMax]

\* generateID: fmt.Sprintf("%d-%d", UnixNano, Nanosecond), the second part being
\* the clock modulo one second
NanosPerSecond == 1000000000
generateID(t) == <<t, t % NanosPerSecond>>

\* the identifier handleSequentialThinking builds: Sprintf("%d-%d", UnixNano, thoughtNumber)
HandlerThoughtID(t, n) == <<t, n>>

\* ------------------------------------------------------------------ configuration
\* DefaultConfig: MaxThoughtsPerSession
DefaultMaxThoughts == 100

\* config.Load on the environment e of the process: the defaults, over them
\* the configuration file when GOTHINK_CONFIG is set, over that loadFromEnv,
\* which reads GOTHINK_PORT, GOTHINK_HOST, GOTHINK_LOG_LEVEL and
\* GOTHINK_MENTAL_MODELS_PATH and no other variable.  GOTHINK_CONFIG is given
\* by the max_thoughts_per_session of the JSON file it names (<<>> when the
\* variable is unset); the other variable is a string, "" when unset
Load(e) ==
    [MaxThoughtsPerSession |->
        IF e.GOTHINK_CONFIG # <<>> THEN e.GOTHINK_CONFIG[1] ELSE DefaultMaxThoughts]

\* ------------------------------------------------------------------ initial state
\* storage.New(config.Load()): empty maps, no lock held; the configuration is
\* fixed for the process
InitFrom(environments) ==
    /\ environ \in environments
    /\ cfgMax = Load(environ).MaxThoughtsPerSession
    /\ now = 0
    /\ thoughts = <<>>
    /\ mentalModels = <<>>
    /\ sessions = <<>>
    /\ heap = <<>>
    /\ thoughtsMutex = FreeMutex
    /\ mentalModelsMutex = FreeMutex
    /\ sessionsMutex = FreeMutex
    /\ pc = [p \in Procs |-> "idle"]
    /\ stk = [p \in Procs |-> <<>>]
    /\ loc = [p \in Procs |-> NoLoc]
    /\ crashed = FALSE
    /\ histT = [s \in SessionIDs |-> <<>>]
    /\ histM = [s \in SessionIDs |-> <<>>]
    /\ prevStats = [s \in SessionIDs |-> [kind |-> None]]
    /\ prevExport = [s \in SessionIDs |-> [kind |-> None]]
    /\ dirtyAny = [s \in SessionIDs |-> FALSE]
    /\ dirtyOwn = [s \in SessionIDs |-> FALSE]

\* the processes whose cap comes from a configuration file
InitStore ==
    InitFrom({[GOTHINK_CONFIG |-> <<c>>, GOTHINK_MAX_THOUGHTS_PER_SESSION |-> ""] :
                 c \in Caps})

\* the processes started with or without a configuration file and with or
\* without GOTHINK_MAX_THOUGHTS_PER_SESSION, their calls made one after the other
InitConfig ==
    /\ InitFrom([GOTHINK_CONFIG : {<<>>, <<1>>},
                 GOTHINK_MAX_THOUGHTS_PER_SESSION : {"", "1", "2"}])
    /\ opsLeft = [p \in Procs |-> IF p = "p1" THEN MaxOps ELSE 0]

\* one caller, who starts an operation when the last one has returned
SerialCaller == "p1"
Init == InitStore /\ opsLeft = [p \in Procs |-> IF p = SerialCaller THEN MaxOps ELSE 0]

\* the tools are called under one cap: they never compare against it
ToolCaps == {2}
InitTools == Init /\ cfgMax \in ToolCaps

\* every caller runs one operation
InitConc == InitStore /\ opsLeft = [p \in Procs |-> 1]

\* a caller starts operation op on session sid with the arguments req and the
\* record rec at label first, to come back through the labels rets; t is the
\* clock as the caller last read it
StartWith(p, op, sid, req, rec, first, rets, t) ==
    /\ Sched(p)
    /\ pc[p] = "idle"
    /\ opsLeft[p] > 0
    /\ opsLeft' = [opsLeft EXCEPT ![p] = @ - 1]
    /\ now' = t
    /\ pc' = [pc EXCEPT ![p] = first]
    /\ stk' = [stk EXCEPT ![p] = rets]
    /\ loc' = [loc EXCEPT ![p] = [NoLoc EXCEPT !.op = op, !.sid = sid, !.req = req,
                                                !.rec = rec]]
    /\ UNCHANGED <<env, store, locks, hist>>

\* a caller starts an operation whose arguments are the record alone
Start(p, op, sid, rec, first, rets, t) == StartWith(p, op, sid, None, rec, first, rets, t)

\* a step that does not read the clock
NoClock == UNCHANGED now

\* ------------------------------------------------------------------ getSession
\* getSession, line 189: s.sessionsMutex.Lock()
gs_lock(p) ==
    /\ Sched(p)
    /\ pc[p] = "gs_lock"
    /\ CanLock(sessionsMutex)
    /\ sessionsMutex' = Lock(sessionsMutex, p)
    /\ pc' = [pc EXCEPT ![p] = "gs_body"]
    /\ NoClock
    /\ UNCHANGED <<env, store, thoughtsMutex, mentalModelsMutex, stk, loc, opsLeft, hist>>

\* a faulty getSession, which creates a session without looking it up
gs_bodyFresh(p) ==
    /\ Sched(p)
    /\ pc[p] = "gs_body"
    /\ \E t \in ClockReads(now) :
        /\ heap' = Append(heap, NewSession(loc[p].sid, t))
        /\ sessions' = Put(sessions, loc[p].sid, Len(heap) + 1)
        /\ loc' = [loc EXCEPT ![p].sess = Len(heap) + 1, ![p].since = Arrival(p, t)]
        /\ now' = t
    /\ sessionsMutex' = FreeMutex
    /\ Return(p)
    /\ UNCHANGED <<env, thoughts, mentalModels, thoughtsMutex, mentalModelsMutex, opsLeft, hist>>

\* a faulty getSession, which touches the session it finds
gs_bodyTouching(p) ==
    /\ Sched(p)
    /\ pc[p] = "gs_body"
    /\ \E t \in ClockReads(now) :
       LET sid == loc[p].sid IN
        /\ IF sid \in DOMAIN sessions
           THEN /\ heap' = [heap EXCEPT ![sessions[sid]].LastAccessedAt = t]
                /\ loc' = [loc EXCEPT ![p].sess = sessions[sid], ![p].since = Arrival(p, t)]
                /\ UNCHANGED sessions
           ELSE /\ heap' = Append(heap, NewSession(sid, t))
                /\ sessions' = Put(sessions, sid, Len(heap) + 1)
                /\ loc' = [loc EXCEPT ![p].sess = Len(heap) + 1, ![p].since = Arrival(p, t)]
        /\ now' = t
    /\ sessionsMutex' = FreeMutex
    /\ Return(p)
    /\ UNCHANGED <<env, thoughts, mentalModels, thoughtsMutex, mentalModelsMutex, opsLeft, hist>>

\* getSession, lines 192-207: look the session up, create it when absent, unlock, return it
gs_body(p) ==
    /\ Sched(p)
    /\ pc[p] = "gs_body"
    /\ LET sid == loc[p].sid IN
        IF sid \in DOMAIN sessions
        THEN /\ loc' = [loc EXCEPT ![p].sess = sessions[sid],
                                   ![p].since = Arrival(p, now)]
             /\ NoClock
             /\ UNCHANGED <<sessions, heap>>
        ELSE \E t \in ClockReads(now) :
             /\ heap' = Append(heap, NewSession(sid, t))
             /\ sessions' = Put(sessions, sid, Len(heap) + 1)
             /\ loc' = [loc EXCEPT ![p].sess = Len(heap) + 1, ![p].since = Arrival(p, t)]
             /\ now' = t
    /\ sessionsMutex' = FreeMutex
    /\ Return(p)
    /\ UNCHANGED <<env, thoughts, mentalModels, thoughtsMutex, mentalModelsMutex, opsLeft, hist>>

\* ------------------------------------------------------------------ AddThought
\* AddThought, lines 59-63: lock the thought map, then call getSession
AT_lock(p) ==
    /\ Sched(p)
    /\ pc[p] = "AT_lock"
    /\ CanLock(thoughtsMutex)
    /\ thoughtsMutex' = Lock(thoughtsMutex, p)
    /\ pc' = [pc EXCEPT ![p] = "gs_lock"]
    /\ stk' = [stk EXCEPT ![p] = <<"AT_check">> \o @]
    /\ NoClock
    /\ UNCHANGED <<env, store, mentalModelsMutex, sessionsMutex, loc, opsLeft, hist>>

\* a faulty limit test, off by one
LimitReachedStrict(count, max) == count > max

\* the limit test of line 64
LimitReached(count, max) == count >= max

\* lines 69-71 and 113-115: the identifier kept, or generated when empty
IDOrGenerated(id, t) == IF id = NoID THEN generateID(t) ELSE id

\* a faulty AddThought, which tests the limit against the thoughts of all
\* sessions
AT_checkGlobal(p) ==
    /\ Sched(p)
    /\ pc[p] = "AT_check"
    /\ IF LimitReached(Cardinality(DOMAIN thoughts), cfgMax)
       THEN /\ loc' = [loc EXCEPT ![p].err = "thought limit reached"]
            /\ thoughtsMutex' = FreeMutex
            /\ Return(p)
            /\ NoClock
            /\ UNCHANGED thoughts
       ELSE \E t \in ClockReads(now) :
            LET id == IDOrGenerated(loc[p].rec.ID, t)
                stored == [loc[p].rec EXCEPT !.ID = id, !.CreatedAt = t]
            IN  /\ thoughts' = Put(thoughts, id, stored)
                /\ loc' = [loc EXCEPT ![p].rec = stored]
                /\ pc' = [pc EXCEPT ![p] = "AT_update"]
                /\ now' = t
                /\ UNCHANGED <<thoughtsMutex, stk>>
    /\ UNCHANGED <<env, mentalModels, sessions, heap, mentalModelsMutex, sessionsMutex,
                   opsLeft, hist>>

\* a faulty AddThought, which counts an attempt on the session record before it
\* tests the limit
AT_checkCounting(p) ==
    /\ Sched(p)
    /\ pc[p] = "AT_check"
    /\ IF LimitReached(heap[loc[p].sess].ThoughtCount, cfgMax)
       THEN /\ loc' = [loc EXCEPT ![p].err = "thought limit reached"]
            /\ heap' = [heap EXCEPT ![loc[p].sess].ThoughtCount = @ + 1]
            /\ thoughtsMutex' = FreeMutex
            /\ Return(p)
            /\ NoClock
            /\ UNCHANGED thoughts
       ELSE \E t \in ClockReads(now) :
            LET id == IDOrGenerated(loc[p].rec.ID, t)
                stored == [loc[p].rec EXCEPT !.ID = id, !.CreatedAt = t]
            IN  /\ thoughts' = Put(thoughts, id, stored)
                /\ loc' = [loc EXCEPT ![p].rec = stored]
                /\ pc' = [pc EXCEPT ![p] = "AT_update"]
                /\ now' = t
                /\ UNCHANGED <<thoughtsMutex, stk, heap>>
    /\ UNCHANGED <<env, mentalModels, sessions, mentalModelsMutex, sessionsMutex,
                   opsLeft, hist>>

\* a faulty AddThought, which also refuses a thought whose number is beyond the
\* announced total
AT_checkOrdered(p) ==
    /\ Sched(p)
    /\ pc[p] = "AT_check"
    /\ IF \/ LimitReached(heap[loc[p].sess].ThoughtCount, cfgMax)
          \/ loc[p].rec.ThoughtNumber > loc[p].rec.TotalThoughts
       THEN /\ loc' = [loc EXCEPT ![p].err = "thought limit reached"]
            /\ thoughtsMutex' = FreeMutex
            /\ Return(p)
            /\ NoClock
            /\ UNCHANGED thoughts
       ELSE \E t \in ClockReads(now) :
            LET id == IDOrGenerated(loc[p].rec.ID, t)
                stored == [loc[p].rec EXCEPT !.ID = id, !.CreatedAt = t]
            IN  /\ thoughts' = Put(thoughts, id, stored)
                /\ loc' = [loc EXCEPT ![p].rec = stored]
                /\ pc' = [pc EXCEPT ![p] = "AT_update"]
                /\ now' = t
                /\ UNCHANGED <<thoughtsMutex, stk>>
    /\ UNCHANGED <<env, mentalModels, sessions, heap, mentalModelsMutex, sessionsMutex,
                   opsLeft, hist>>

\* a faulty AddThought, which stores every thought under an identifier of its
\* own and leaves the caller's record as it was
AT_checkRekeyed(p) ==
    /\ Sched(p)
    /\ pc[p] = "AT_check"
    /\ IF LimitReached(heap[loc[p].sess].ThoughtCount, cfgMax)
       THEN /\ loc' = [loc EXCEPT ![p].err = "thought limit reached"]
            /\ thoughtsMutex' = FreeMutex
            /\ Return(p)
            /\ NoClock
            /\ UNCHANGED thoughts
       ELSE \E t \in ClockReads(now) :
            LET id == generateID(t)
                stored == [loc[p].rec EXCEPT !.ID = id, !.CreatedAt = t]
            IN  /\ thoughts' = Put(thoughts, id, stored)
                /\ pc' = [pc EXCEPT ![p] = "AT_update"]
                /\ now' = t
                /\ UNCHANGED <<thoughtsMutex, stk, loc>>
    /\ UNCHANGED <<env, mentalModels, sessions, heap, mentalModelsMutex, sessionsMutex,
                   opsLeft, hist>>

\* AddThought, lines 64-74: the limit check; on success the identifier, the
\* creation time and the insert
AT_check(p) ==
    /\ Sched(p)
    /\ pc[p] = "AT_check"
    /\ IF LimitReached(heap[loc[p].sess].ThoughtCount, cfgMax)
       THEN /\ loc' = [loc EXCEPT ![p].err = "thought limit reached"]
            /\ thoughtsMutex' = FreeMutex
            /\ Return(p)
            /\ NoClock
            /\ UNCHANGED thoughts
       ELSE \E t \in ClockReads(now) :
            LET id == IDOrGenerated(loc[p].rec.ID, t)
                stored == [loc[p].rec EXCEPT !.ID = id, !.CreatedAt = t]
            IN  /\ thoughts' = Put(thoughts, id, stored)
                /\ loc' = [loc EXCEPT ![p].rec = stored]
                /\ pc' = [pc EXCEPT ![p] = "AT_update"]
                /\ now' = t
                /\ UNCHANGED <<thoughtsMutex, stk>>
    /\ UNCHANGED <<env, mentalModels, sessions, heap, mentalModelsMutex, sessionsMutex,
                   opsLeft, hist>>

\* AddThought, lines 77-87: count the thought on the session record, touch it, store
\* the pointer back into the session map (no session lock held), unlock, return nil
AT_update(p) ==
    /\ Sched(p)
    /\ pc[p] = "AT_update"
    /\ \E t \in StaleReads(loc[p].rec.CreatedAt) :
       LET ref == loc[p].sess
           sid == loc[p].sid
       IN  /\ heap' = [heap EXCEPT ![ref].ThoughtCount = @ + 1,
                                    ![ref].LastAccessedAt = t]
           /\ sessions' = Put(sessions, sid, ref)
           /\ histT' = [histT EXCEPT ![sid] = Append(@, loc[p].rec)]
           /\ dirtyAny' = [s \in SessionIDs |-> TRUE]
           /\ dirtyOwn' = [dirtyOwn EXCEPT ![sid] = TRUE]
           /\ prevExport' = [s \in SessionIDs |-> [kind |-> None]]
           /\ now' = MaxOf(now, t)
    /\ loc' = [loc EXCEPT ![p].err = None]
    /\ thoughtsMutex' = FreeMutex
    /\ Return(p)
    /\ UNCHANGED <<env, thoughts, mentalModels, mentalModelsMutex, sessionsMutex,
                   opsLeft, histM, prevStats>>

\* ------------------------------------------------------------------ AddMentalModel
\* AddMentalModel, line 110: lock the application map
AM_lock(p) ==
    /\ Sched(p)
    /\ pc[p] = "AM_lock"
    /\ CanLock(mentalModelsMutex)
    /\ mentalModelsMutex' = Lock(mentalModelsMutex, p)
    /\ pc' = [pc EXCEPT ![p] = "AM_insert"]
    /\ NoClock
    /\ UNCHANGED <<env, store, thoughtsMutex, sessionsMutex, stk, loc, opsLeft, hist>>

\* AddMentalModel, lines 113-121: identifier, creation time, insert; then call getSession
AM_insert(p) ==
    /\ Sched(p)
    /\ pc[p] = "AM_insert"
    /\ \E t \in ClockReads(now) :
       LET id == IDOrGenerated(loc[p].rec.ID, t)
           stored == [loc[p].rec EXCEPT !.ID = id, !.CreatedAt = t]
       IN  /\ mentalModels' = Put(mentalModels, id, stored)
           /\ loc' = [loc EXCEPT ![p].rec = stored]
           /\ now' = t
    /\ pc' = [pc EXCEPT ![p] = "gs_lock"]
    /\ stk' = [stk EXCEPT ![p] = <<"AM_update">> \o @]
    /\ UNCHANGED <<env, thoughts, sessions, heap, locks, opsLeft, hist>>

\* a faulty AddMentalModel, which counts the application as a thought
AM_updateCounting(p) ==
    /\ Sched(p)
    /\ pc[p] = "AM_update"
    /\ \E t \in StaleReads(loc[p].since) :
       LET ref == loc[p].sess
           sid == loc[p].sid
       IN  /\ heap' = [heap EXCEPT ![ref].ThoughtCount = @ + 1,
                                    ![ref].LastAccessedAt = t]
           /\ sessions' = Put(sessions, sid, ref)
           /\ histM' = [histM EXCEPT ![sid] = Append(@, loc[p].rec)]
           /\ dirtyAny' = [s \in SessionIDs |-> TRUE]
           /\ dirtyOwn' = [dirtyOwn EXCEPT ![sid] = TRUE]
           /\ prevExport' = [s \in SessionIDs |-> [kind |-> None]]
           /\ now' = MaxOf(now, t)
    /\ loc' = [loc EXCEPT ![p].err = None, ![p].since = 0]
    /\ mentalModelsMutex' = FreeMutex
    /\ Return(p)
    /\ UNCHANGED <<env, thoughts, mentalModels, thoughtsMutex, sessionsMutex,
                   opsLeft, histT, prevStats>>

\* AddMentalModel, lines 122-131: touch the session record, store the pointer back
\* into the session map (no session lock held), unlock, return nil
AM_update(p) ==
    /\ Sched(p)
    /\ pc[p] = "AM_update"
    /\ \E t \in StaleReads(loc[p].since) :
       LET ref == loc[p].sess
           sid == loc[p].sid
       IN  /\ heap' = [heap EXCEPT ![ref].LastAccessedAt = t]
           /\ sessions' = Put(sessions, sid, ref)
           /\ histM' = [histM EXCEPT ![sid] = Append(@, loc[p].rec)]
           /\ dirtyAny' = [s \in SessionIDs |-> TRUE]
           /\ dirtyOwn' = [dirtyOwn EXCEPT ![sid] = TRUE]
           /\ prevExport' = [s \in SessionIDs |-> [kind |-> None]]
           /\ now' = MaxOf(now, t)
    /\ loc' = [loc EXCEPT ![p].err = None, ![p].since = 0]
    /\ mentalModelsMutex' = FreeMutex
    /\ Return(p)
    /\ UNCHANGED <<env, thoughts, mentalModels, thoughtsMutex, sessionsMutex,
                   opsLeft, histT, prevStats>>

\* ------------------------------------------------------------------ GetThoughts
\* GetThoughts, line 92: s.thoughtsMutex.RLock()
GT_rlock(p) ==
    /\ Sched(p)
    /\ pc[p] = "GT_rlock"
    /\ CanRLock(thoughtsMutex)
    /\ thoughtsMutex' = RLock(thoughtsMutex, p)
    /\ pc' = [pc EXCEPT ![p] = "GT_body"]
    /\ NoClock
    /\ UNCHANGED <<env, store, mentalModelsMutex, sessionsMutex, stk, loc, opsLeft, hist>>

\* what the loop of lines 95-99 collects for a session: every thought of the map,
\* whatever session it was appended to, in the map's iteration order
ThoughtsFor(sid) == RangeOrders(thoughts)

\* GetThoughts, lines 95-101: collect, unlock, return
GT_body(p) ==
    /\ Sched(p)
    /\ pc[p] = "GT_body"
    /\ \E l \in ThoughtsFor(loc[p].sid) : loc' = [loc EXCEPT ![p].ths = l]
    /\ thoughtsMutex' = RUnlock(thoughtsMutex, p)
    /\ Return(p)
    /\ NoClock
    /\ UNCHANGED <<env, store, mentalModelsMutex, sessionsMutex, opsLeft, hist>>

\* ------------------------------------------------------------------ GetMentalModels
\* GetMentalModels, line 136: s.mentalModelsMutex.RLock()
GM_rlock(p) ==
    /\ Sched(p)
    /\ pc[p] = "GM_rlock"
    /\ CanRLock(mentalModelsMutex)
    /\ mentalModelsMutex' = RLock(mentalModelsMutex, p)
    /\ pc' = [pc EXCEPT ![p] = "GM_body"]
    /\ NoClock
    /\ UNCHANGED <<env, store, thoughtsMutex, sessionsMutex, stk, loc, opsLeft, hist>>

\* what the loop of lines 139-142 collects for a session: every application of the map
ModelsFor(sid) == RangeOrders(mentalModels)

\* GetMentalModels, lines 139-144: collect, unlock, return
GM_body(p) ==
    /\ Sched(p)
    /\ pc[p] = "GM_body"
    /\ \E l \in ModelsFor(loc[p].sid) : loc' = [loc EXCEPT ![p].mms = l]
    /\ mentalModelsMutex' = RUnlock(mentalModelsMutex, p)
    /\ Return(p)
    /\ NoClock
    /\ UNCHANGED <<env, store, thoughtsMutex, sessionsMutex, opsLeft, hist>>

\* ------------------------------------------------------------------ GetSession
\* GetSession, line 153: s.sessionsMutex.RLock()
GS_rlock(p) ==
    /\ Sched(p)
    /\ pc[p] = "GS_rlock"
    /\ CanRLock(sessionsMutex)
    /\ sessionsMutex' = RLock(sessionsMutex, p)
    /\ pc' = [pc EXCEPT ![p] = "GS_body"]
    /\ NoClock
    /\ UNCHANGED <<env, store, thoughtsMutex, mentalModelsMutex, stk, loc, opsLeft, hist>>

\* a faulty GetSession, which creates the session it does not find
GS_bodyCreating(p) ==
    /\ Sched(p)
    /\ pc[p] = "GS_body"
    /\ LET sid == loc[p].sid IN
        IF sid \in DOMAIN sessions
        THEN /\ loc' = [loc EXCEPT ![p].ret = [kind |-> "session", sess |-> sessions[sid]]]
             /\ UNCHANGED <<sessions, heap>>
        ELSE /\ heap' = Append(heap, NewSession(sid, now))
             /\ sessions' = Put(sessions, sid, Len(heap) + 1)
             /\ loc' = [loc EXCEPT ![p].ret = [kind |-> "session", sess |-> Len(heap) + 1]]
    /\ sessionsMutex' = RUnlock(sessionsMutex, p)
    /\ Return(p)
    /\ NoClock
    /\ UNCHANGED <<env, thoughts, mentalModels, thoughtsMutex, mentalModelsMutex, opsLeft, hist>>

\* GetSession, lines 156-161: the strict lookup
GS_body(p) ==
    /\ Sched(p)
    /\ pc[p] = "GS_body"
    /\ LET sid == loc[p].sid IN
        loc' = [loc EXCEPT ![p].ret =
                  IF sid \in DOMAIN sessions
                  THEN [kind |-> "session", sess |-> sessions[sid]]
                  ELSE [kind |-> "error", msg |-> "session not found"]]
    /\ sessionsMutex' = RUnlock(sessionsMutex, p)
    /\ Return(p)
    /\ NoClock
    /\ UNCHANGED <<env, store, thoughtsMutex, mentalModelsMutex, opsLeft, hist>>

\* ------------------------------------------------------------------ CreateSession
\* CreateSession, line 166: s.sessionsMutex.Lock()
CS_lock(p) ==
    /\ Sched(p)
    /\ pc[p] = "CS_lock"
    /\ CanLock(sessionsMutex)
    /\ sessionsMutex' = Lock(sessionsMutex, p)
    /\ pc' = [pc EXCEPT ![p] = "CS_body"]
    /\ NoClock
    /\ UNCHANGED <<env, store, thoughtsMutex, mentalModelsMutex, stk, loc, opsLeft, hist>>

\* a faulty CreateSession, which keeps the thought count of the record it replaces
CS_bodyKeeping(p) ==
    /\ Sched(p)
    /\ pc[p] = "CS_body"
    /\ \E t \in ClockReads(now) :
       LET sid == loc[p].sid
           kept == IF sid \in DOMAIN sessions THEN heap[sessions[sid]].ThoughtCount ELSE 0
       IN
        /\ heap' = Append(heap, [NewSession(sid, t) EXCEPT !.ThoughtCount = kept])
        /\ sessions' = Put(sessions, sid, Len(heap) + 1)
        /\ loc' = [loc EXCEPT ![p].ret = [kind |-> "session", sess |-> Len(heap) + 1]]
        /\ dirtyAny' = [s \in SessionIDs |-> TRUE]
        /\ dirtyOwn' = [dirtyOwn EXCEPT ![sid] = TRUE]
        /\ prevExport' = [s \in SessionIDs |-> [kind |-> None]]
        /\ now' = t
    /\ sessionsMutex' = FreeMutex
    /\ Return(p)
    /\ UNCHANGED <<env, thoughts, mentalModels, thoughtsMutex, mentalModelsMutex,
                   opsLeft, histT, histM, prevStats>>

\* CreateSession, lines 169-184: a fresh record replaces whatever the map held
CS_body(p) ==
    /\ Sched(p)
    /\ pc[p] = "CS_body"
    /\ \E t \in ClockReads(now) :
       LET sid == loc[p].sid IN
        /\ heap' = Append(heap, NewSession(sid, t))
        /\ sessions' = Put(sessions, sid, Len(heap) + 1)
        /\ loc' = [loc EXCEPT ![p].ret = [kind |-> "session", sess |-> Len(heap) + 1]]
        /\ dirtyAny' = [s \in SessionIDs |-> TRUE]
        /\ dirtyOwn' = [dirtyOwn EXCEPT ![sid] = TRUE]
        /\ prevExport' = [s \in SessionIDs |-> [kind |-> None]]
        /\ now' = t
    /\ sessionsMutex' = FreeMutex
    /\ Return(p)
    /\ UNCHANGED <<env, thoughts, mentalModels, thoughtsMutex, mentalModelsMutex,
                   opsLeft, histT, histM, prevStats>>

\* ------------------------------------------------------------------ GetSessionStats
\* lines 218-229: the tools used, as the keys of a map, listed in iteration order
ToolsUsedOf(ths, mms) ==
    (IF Len(ths) > 0 THEN {"sequential-thinking"} ELSE {})
        \cup (IF Len(mms) > 0 THEN {"mental-model"} ELSE {})

\* lines 231-244: the statistics record
StatsOf(sid, session, ths, mms, toolsList) ==
    [kind |-> "stats",
     SessionID |-> sid,
     CreatedAt |-> session.CreatedAt,
     LastAccessedAt |-> session.LastAccessedAt,
     ThoughtCount |-> Len(ths),
     ToolsUsed |-> toolsList,
     TotalOperations |-> Len(ths) + Len(mms),
     IsActive |-> session.IsActive,
     RemainingThoughts |-> cfgMax - Len(ths),
     Stores |-> [thoughts |-> Len(ths), mental_models |-> Len(mms)]]

\* a faulty GetSessionStats, which counts itself as an operation of the session
\* and reports the session's running total
ST_buildCounting(p) ==
    /\ Sched(p)
    /\ pc[p] = "ST_build"
    /\ heap' = [heap EXCEPT ![loc[p].sess].TotalOperations = @ + 1]
    /\ \E toolsList \in Orders(ToolsUsedOf(loc[p].ths, loc[p].mms)) :
          loc' = [loc EXCEPT ![p].ret =
                    [StatsOf(loc[p].sid, heap[loc[p].sess], loc[p].ths, loc[p].mms, toolsList)
                        EXCEPT !.TotalOperations = heap'[loc[p].sess].TotalOperations]]
    /\ Return(p)
    /\ NoClock
    /\ UNCHANGED <<env, thoughts, mentalModels, sessions, locks, opsLeft, hist>>

\* GetSessionStats, lines 217-246, after getSession, GetThoughts and GetMentalModels
\* have returned: read the session record and build the statistics
ST_build(p) ==
    /\ Sched(p)
    /\ pc[p] = "ST_build"
    /\ \E toolsList \in Orders(ToolsUsedOf(loc[p].ths, loc[p].mms)) :
          loc' = [loc EXCEPT ![p].ret =
                    StatsOf(loc[p].sid, heap[loc[p].sess], loc[p].ths, loc[p].mms, toolsList)]
    /\ Return(p)
    /\ NoClock
    /\ UNCHANGED <<env, store, locks, opsLeft, hist>>

\* ------------------------------------------------------------------ ExportSession
\* ExportSession, lines 258-273, after GetThoughts and GetMentalModels have returned
ExportOf(sid, ths, mms, t) ==
    [kind |-> "export",
     Version |-> "1.0.0",
     Timestamp |-> t,
     SessionID |-> sid,
     SessionType |-> "hybrid",
     Data |-> [thoughts |-> ths, mental_models |-> mms],
     Metadata |-> [exported_at |-> t, version |-> "0.1.0"]]

\* a faulty ExportSession, which fails for a session without a record
EX_buildStrict(p) ==
    /\ Sched(p)
    /\ pc[p] = "EX_build"
    /\ \E t \in ClockReads(now) :
        /\ loc' = [loc EXCEPT ![p].ret =
                      IF loc[p].sid \in DOMAIN sessions
                      THEN ExportOf(loc[p].sid, loc[p].ths, loc[p].mms, t)
                      ELSE [kind |-> "error", msg |-> "session not found"]]
        /\ now' = t
    /\ Return(p)
    /\ UNCHANGED <<env, store, locks, opsLeft, hist>>

EX_build(p) ==
    /\ Sched(p)
    /\ pc[p] = "EX_build"
    /\ \E t \in ClockReads(now) :
        /\ loc' = [loc EXCEPT ![p].ret = ExportOf(loc[p].sid, loc[p].ths, loc[p].mms, t)]
        /\ now' = t
    /\ Return(p)
    /\ UNCHANGED <<env, store, locks, opsLeft, hist>>

\* ------------------------------------------------------------------ handlers
\* ThoughtData as handleSequentialThinking (lines 406-413) builds it: a
\* clock-derived identifier, the caller's fields, zero values for the rest
HandlerThought(text, n, total, next, t) ==
    [ID |-> HandlerThoughtID(t, n), Thought |-> text, ThoughtNumber |-> n,
     TotalThoughts |-> total, IsRevision |-> FALSE, RevisesThought |-> None,
     BranchFromThought |-> None, BranchID |-> "", NeedsMoreThoughts |-> FALSE,
     NextThoughtNeeded |-> next, CreatedAt |-> t]

\* handleSequentialThinking is called (the sequential_thinking tool)
Call_handleSequentialThinking(p, S) ==
    \E sid \in S, text \in ThoughtTexts, n \in ThoughtNumbers,
       total \in TotalThoughtsVals :
        \E t \in ClockReads(now) :
            StartWith(p, "handleSequentialThinking", sid,
                      [thought |-> text, thoughtNumber |-> n, totalThoughts |-> total,
                       nextThoughtNeeded |-> TRUE],
                      HandlerThought(text, n, total, TRUE, t),
                      "AT_lock", <<"HST_afterAdd", "done">>, t)

\* handleSequentialThinking after AddThought: an error ends the call, otherwise
\* GetSessionStats is called (main_test.go lines 416-424)
HST_afterAdd(p) ==
    /\ Sched(p)
    /\ pc[p] = "HST_afterAdd"
    /\ IF loc[p].err # None
       THEN /\ loc' = [loc EXCEPT ![p].ret = [kind |-> "error", msg |-> loc[p].err]]
            /\ Return(p)
       ELSE /\ pc' = [pc EXCEPT ![p] = "gs_lock"]
            /\ stk' = [stk EXCEPT ![p] =
                          <<"GT_rlock", "GM_rlock", "ST_build", "HST_respond">> \o @]
            /\ UNCHANGED loc
    /\ NoClock
    /\ UNCHANGED <<env, store, locks, opsLeft, hist>>

\* the cap handleSequentialThinking subtracts from (main_test.go line 433)
HandlerCapLiteral == 100

\* the response, main_test.go lines 427-435
ThoughtResponse(sid, thoughtID, stats) ==
    [kind |-> "thought_response",
     status |-> "success",
     thought_id |-> thoughtID,
     session_context |->
        [session_id |-> sid,
         total_thoughts |-> stats.ThoughtCount,
         remaining_thoughts |-> HandlerCapLiteral - stats.ThoughtCount]]

\* what the history keeps of a statistics result: the counts and the tools as a set
StatsView(r) ==
    [kind |-> "stats", ThoughtCount |-> r.ThoughtCount,
     TotalOperations |-> r.TotalOperations, ToolsUsed |-> SeqToSet(r.ToolsUsed),
     RemainingThoughts |-> r.RemainingThoughts, Stores |-> r.Stores]

\* what the history keeps of an export: everything but the timestamps, the
\* records as sets
ExportView(r) ==
    [kind |-> "export", Version |-> r.Version, SessionType |-> r.SessionType,
     thoughts |-> SeqToSet(r.Data.thoughts),
     mental_models |-> SeqToSet(r.Data.mental_models),
     metaVersion |-> r.Metadata.version]

\* the history takes note of the statistics the caller p has just received
NoteStats(p) ==
    /\ prevStats' = [prevStats EXCEPT ![loc[p].sid] = StatsView(loc[p].ret)]
    /\ dirtyAny' = [dirtyAny EXCEPT ![loc[p].sid] = FALSE]
    /\ dirtyOwn' = [dirtyOwn EXCEPT ![loc[p].sid] = FALSE]

HST_respond(p) ==
    /\ Sched(p)
    /\ pc[p] = "HST_respond"
    /\ loc' = [loc EXCEPT ![p].ret =
                  ThoughtResponse(loc[p].sid, loc[p].rec.ID, loc[p].ret)]
    /\ NoteStats(p)
    /\ Return(p)
    /\ NoClock
    /\ UNCHANGED <<env, store, locks, opsLeft, histT, histM, prevExport>>

\* ------------------------------------------------------------------ direct calls
StepLists == {<<"s">>}

\* MentalModelData as ThinkingHandler.MentalModel builds it (thinking.go lines
\* 113-122): no identifier, the storage generates one
ModelData(name, problem, steps, t) ==
    [ID |-> NoID, ModelName |-> name, Problem |-> problem, Steps |-> steps,
     Reasoning |-> "", Conclusion |-> "", Confidence |-> 0, CreatedAt |-> t]

Call_AddMentalModel(p, S) ==
    \E sid \in S, name \in ModelNames, problem \in Problems, steps \in StepLists :
        \E t \in ClockReads(now) :
            Start(p, "AddMentalModel", sid, ModelData(name, problem, steps, t),
                  "AM_lock", <<"done">>, t)

Call_GetSession(p, S) ==
    \E sid \in S : Start(p, "GetSession", sid, None, "GS_rlock", <<"done">>, now)

Call_CreateSession(p, S) ==
    \E sid \in S : Start(p, "CreateSession", sid, None, "CS_lock", <<"done">>, now)

\* GetSessionStats, lines 212-215: getSession, GetThoughts, GetMentalModels in turn
Call_GetSessionStats(p, S) ==
    \E sid \in S :
        Start(p, "GetSessionStats", sid, None, "gs_lock",
              <<"GT_rlock", "GM_rlock", "ST_build", "done">>, now)

\* a faulty ExportSession, which gets or creates the session first
Call_ExportSessionCreating(p, S) ==
    \E sid \in S :
        Start(p, "ExportSession", sid, None, "gs_lock",
              <<"GT_rlock", "GM_rlock", "EX_build", "done">>, now)

\* ExportSession, lines 255-256: GetThoughts, GetMentalModels in turn
Call_ExportSession(p, S) ==
    \E sid \in S :
        Start(p, "ExportSession", sid, None, "GT_rlock",
              <<"GM_rlock", "EX_build", "done">>, now)

\* the caller takes the result; the history keeps the statistics and the export
\* last returned for the session
\* ------------------------------------------------------------------ tool arguments
\* an argument of a tool call as the JSON payload carries it: its JSON type and
\* its value as a string, a number or a boolean
Arg(type, str, num, bool) == [type |-> type, s |-> str, n |-> num, b |-> bool]

\* the arguments the sequential_thinking tool requires (mcp.Required())
RequiredArgs ==
    [session_id |-> "string", thought |-> "string", thought_number |-> "number",
     total_thoughts |-> "number", next_thought_needed |-> "bool"]

\* the payloads of the model: complete, without session_id, without
\* thought_number, with a string as thought_number
Payloads ==
    LET full == [session_id |-> Arg("string", "s1", 0, FALSE),
                 thought |-> Arg("string", "a", 0, FALSE),
                 thought_number |-> Arg("number", "", 2, FALSE),
                 total_thoughts |-> Arg("number", "", 1, FALSE),
                 next_thought_needed |-> Arg("bool", "", 0, TRUE)]
        without(key) == [k \in DOMAIN full \ {key} |-> full[k]]
    IN  {full, without("session_id"), without("thought_number"),
         [full EXCEPT !.thought_number = Arg("string", "2", 0, FALSE)]}

\* req.RequireString, req.RequireInt, req.RequireBool: the value, or the zero
\* value and an error when the argument is absent or of another type
RequireString(args, key) ==
    IF key \in DOMAIN args /\ args[key].type = "string"
    THEN [val |-> args[key].s, err |-> FALSE] ELSE [val |-> "", err |-> TRUE]
RequireInt(args, key) ==
    IF key \in DOMAIN args /\ args[key].type = "number"
    THEN [val |-> args[key].n, err |-> FALSE] ELSE [val |-> 0, err |-> TRUE]
RequireBool(args, key) ==
    IF key \in DOMAIN args /\ args[key].type = "bool"
    THEN [val |-> args[key].b, err |-> FALSE] ELSE [val |-> FALSE, err |-> TRUE]

\* the sequential_thinking tool is called (main_test.go lines 161-174): the
\* errors of the Require calls are dropped, handleSequentialThinking is called
\* with the values, and its result or error is the result of the tool
Call_sequential_thinking(p) ==
    \E args \in Payloads, t \in ClockReads(now) :
        StartWith(p, "sequential_thinking", RequireString(args, "session_id").val, args,
                  HandlerThought(RequireString(args, "thought").val,
                                 RequireInt(args, "thought_number").val,
                                 RequireInt(args, "total_thoughts").val,
                                 RequireBool(args, "next_thought_needed").val, t),
                  "AT_lock", <<"HST_afterAdd", "done">>, t)

\* ------------------------------------------------------------------ the model catalog
\* types.MentalModels (one of its four entries)
MentalModels ==
    [n \in ModelNames |->
        [Name |-> "First Principles Thinking",
         Description |-> "Break down complex problems into fundamental components",
         Steps |-> <<"Identify the problem clearly",
                     "Break it down into basic components",
                     "Question assumptions",
                     "Build up from the basics">>,
         Category |-> "analytical"]]

\* strings.TrimSpace on the strings of the model
TrimSpace(str) == IF str = " " THEN "" ELSE str

\* a custom model as the YAML file gives it; the priority may be left out
CustomModel(name, steps, category, given, priority) ==
    [Name |-> name, Description |-> "d", Steps |-> steps, Category |-> category,
     Priority |-> [present |-> given, value |-> priority]]

\* no path to custom models is configured
NoFile == [kind |-> "none", models |-> <<>>]

\* what the configured path may hold when it is loaded: nothing (no path), no
\* file, a file that is not YAML, a new model without priority, an override of
\* a core model, a model with a blank step
CustomFiles ==
    {NoFile,
     [kind |-> "missing", models |-> <<>>],
     [kind |-> "malformed", models |-> <<>>],
     [kind |-> "file",
      models |-> [n \in {"my_model"} |->
                     CustomModel("My Model", <<"c1">>, "custom", FALSE, 0)]],
     [kind |-> "file",
      models |-> [n \in {"first_principles"} |->
                     CustomModel("Mine", <<"c1", "c2">>, "custom", TRUE, 2)]],
     [kind |-> "file",
      models |-> [n \in {"my_model"} |->
                     CustomModel("My Model", <<" ">>, "custom", FALSE, 0)]]}

\* a faulty validation, which takes a string of spaces for a value
ValidModelsUntrimmed(models) ==
    \A key \in DOMAIN models :
        /\ models[key].Name # ""
        /\ models[key].Description # ""
        /\ Len(models[key].Steps) # 0
        /\ models[key].Category # ""
        /\ \A i \in 1..Len(models[key].Steps) : models[key].Steps[i] # ""

\* validateModels: the error cases
ValidModels(models) ==
    \A key \in DOMAIN models :
        /\ TrimSpace(models[key].Name) # ""
        /\ TrimSpace(models[key].Description) # ""
        /\ Len(models[key].Steps) # 0
        /\ TrimSpace(models[key].Category) # ""
        /\ \A i \in 1..Len(models[key].Steps) : TrimSpace(models[key].Steps[i]) # ""

\* validateModels: custom models without priority get priority 1
validateModels(models) ==
    [key \in DOMAIN models |->
        IF models[key].Priority = 0 THEN [models[key] EXCEPT !.Priority = 1]
        ELSE models[key]]

\* loadModelsFromFile: an error when the YAML does not parse or a model is
\* invalid; otherwise the parsed models (a priority left out is the integer 0)
\* after validateModels
loadModelsFromFile(file) ==
    LET parsed == [key \in DOMAIN file.models |->
                      [file.models[key] EXCEPT
                          !.Priority = IF @.present THEN @.value ELSE 0]]
    IN  IF file.kind = "file" /\ ValidModels(parsed)
        THEN [err |-> FALSE, models |-> validateModels(parsed)]
        ELSE [err |-> TRUE, models |-> <<>>]

\* loadCustomModels: an error when the path does not exist; for a directory
\* the models of its YAML files that load, in the order of the walk, a later
\* file writing over an earlier one; for a file what loadModelsFromFile gives
loadCustomModels(source) ==
    IF source.kind = "missing" THEN [err |-> TRUE, models |-> <<>>]
    ELSE IF source.kind = "dir"
    THEN LET loaded(i) == loadModelsFromFile(source.files[i])
             good == {i \in 1..Len(source.files) : ~loaded(i).err}
             keys == UNION {DOMAIN loaded(i).models : i \in good}
             last(key) == CHOOSE i \in good :
                              /\ key \in DOMAIN loaded(i).models
                              /\ \A j \in good : key \in DOMAIN loaded(j).models => j <= i
         IN  [err |-> FALSE, models |-> [key \in keys |-> loaded(last(key)).models[key]]]
    ELSE loadModelsFromFile(source)

\* the core models in the loader's format, with priority 0 (lines 150-158)
CoreModels ==
    [key \in DOMAIN MentalModels |->
        [Name |-> MentalModels[key].Name,
         Description |-> MentalModels[key].Description,
         Steps |-> MentalModels[key].Steps,
         Category |-> MentalModels[key].Category,
         Priority |-> 0]]

\* a faulty LoadMentalModels, which lets the core models win over custom ones
LoadMentalModelsCoreFirst(source) ==
    LET loaded == loadCustomModels(source)
        custom == IF source.kind = "none" \/ loaded.err THEN <<>> ELSE loaded.models
    IN  [key \in DOMAIN CoreModels \cup DOMAIN custom |->
            IF key \in DOMAIN CoreModels THEN CoreModels[key] ELSE custom[key]]

\* a faulty LoadMentalModels, which gives up the core models when the custom
\* models cannot be loaded
LoadMentalModelsOrNothing(source) ==
    LET loaded == loadCustomModels(source)
    IN  IF source.kind = "none" THEN CoreModels
        ELSE IF loaded.err THEN <<>>
        ELSE [key \in DOMAIN CoreModels \cup DOMAIN loaded.models |->
                 IF key \in DOMAIN loaded.models THEN loaded.models[key]
                 ELSE CoreModels[key]]

\* LoadMentalModels: the core models, and when a path is configured and loads,
\* the custom models merged over them; never an error
LoadMentalModels(source) ==
    LET loaded == loadCustomModels(source)
        custom == IF source.kind = "none" \/ loaded.err THEN <<>> ELSE loaded.models
    IN  [key \in DOMAIN CoreModels \cup DOMAIN custom |->
            IF key \in DOMAIN custom THEN custom[key] ELSE CoreModels[key]]

\* GetAvailableModels: "key: name" of every model
GetAvailableModels(models) == {<<key, models[key].Name>> : key \in DOMAIN models}

\* ------------------------------------------------------------------ the tools
\* the model names, approach names, issues and steps a request may carry
RequestedModels == {"first_principles", "my_model", "no_such_model"}
ApproachNames == {"binary_search"}
Issues == {"i"}
RequestSteps ==
    {[present |-> FALSE, value |-> <<>>],
     [present |-> TRUE, value |-> <<>>],
     [present |-> TRUE, value |-> <<"s">>]}

\* req.GetStringSlice("steps", []string{}), and the JSON decoding of the HTTP
\* request: an absent list is the empty list
GetStringSlice(arg, default) == IF arg.present THEN arg.value ELSE default

\* the mental_model tool is called
Call_mental_model(p, S) ==
    \E sid \in S, name \in RequestedModels, problem \in Problems, steps \in RequestSteps :
        Start(p, "mental_model", sid,
              [model_name |-> name, problem |-> problem, steps |-> steps],
              "mental_model_lookup", <<"done">>, now)

\* MentalModelData as the mental_model tool builds it (main_test.go lines 212-218);
\* the storage sets CreatedAt again
ToolModelData(name, problem, steps, t) ==
    [ID |-> <<t, Len(steps)>>, ModelName |-> name, Problem |-> problem, Steps |-> steps,
     Reasoning |-> "", Conclusion |-> "", Confidence |-> 0, CreatedAt |-> t]

\* the steps the mental_model tool uses (main_test.go lines 207-209)
StepsUsed(steps, model) == IF Len(steps) = 0 THEN model.Steps ELSE steps

\* the error result for a model that is not in the catalog (lines 201-204)
ModelNotFound(name, available) ==
    [kind |-> "error", msg |-> "Mental model not found", model_name |-> name,
     available |-> available]

\* a faulty mental_model tool, which applies a model it does not find with the
\* steps of the request
mental_model_lookupLenient(p) ==
    /\ Sched(p)
    /\ pc[p] = "mental_model_lookup"
    /\ \E file \in CustomFiles, t \in ClockReads(now) :
        LET request == loc[p].rec
            availableModels == LoadMentalModels(file)
            steps == GetStringSlice(request.steps, <<>>)
        IN  /\ loc' = [loc EXCEPT
                  ![p].req = request @@
                             [availableModels |-> availableModels],
                  ![p].rec = ToolModelData(request.model_name, request.problem, steps, t)]
            /\ pc' = [pc EXCEPT ![p] = "AM_lock"]
            /\ stk' = [stk EXCEPT ![p] = <<"mental_model_afterAdd">> \o @]
            /\ now' = t
    /\ UNCHANGED <<env, store, locks, opsLeft, hist>>

\* a faulty mental_model tool, which always stores the steps of the request
mental_model_lookupNoDefault(p) ==
    /\ Sched(p)
    /\ pc[p] = "mental_model_lookup"
    /\ \E file \in CustomFiles :
        LET request == loc[p].rec
            availableModels == LoadMentalModels(file)
            steps == GetStringSlice(request.steps, <<>>)
            req == request @@
                   [availableModels |-> availableModels]
        IN  IF request.model_name \notin DOMAIN availableModels
            THEN /\ \E available \in Orders(GetAvailableModels(availableModels)) :
                       loc' = [loc EXCEPT
                                 ![p].req = req,
                                 ![p].ret = ModelNotFound(request.model_name, available)]
                 /\ Return(p)
                 /\ NoClock
            ELSE \E t \in ClockReads(now) :
                 /\ loc' = [loc EXCEPT
                              ![p].req = req,
                              ![p].rec = ToolModelData(request.model_name,
                                                       request.problem, steps, t)]
                 /\ pc' = [pc EXCEPT ![p] = "AM_lock"]
                 /\ stk' = [stk EXCEPT ![p] = <<"mental_model_afterAdd">> \o @]
                 /\ now' = t
    /\ UNCHANGED <<env, store, locks, opsLeft, hist>>

\* the mental_model tool, main_test.go lines 186-218: the arguments, the catalog
\* as loaded for this call, the lookup, the default steps, the record
mental_model_lookup(p) ==
    /\ Sched(p)
    /\ pc[p] = "mental_model_lookup"
    /\ \E file \in CustomFiles :
        LET request == loc[p].rec
            availableModels == LoadMentalModels(file)
            steps == GetStringSlice(request.steps, <<>>)
            req == request @@
                   [availableModels |-> availableModels]
        IN  IF request.model_name \notin DOMAIN availableModels
            THEN /\ \E available \in Orders(GetAvailableModels(availableModels)) :
                       loc' = [loc EXCEPT
                                 ![p].req = req,
                                 ![p].ret = ModelNotFound(request.model_name, available)]
                 /\ Return(p)
                 /\ NoClock
            ELSE \E t \in ClockReads(now) :
                 /\ loc' = [loc EXCEPT
                              ![p].req = req,
                              ![p].rec = ToolModelData(
                                  request.model_name, request.problem,
                                  StepsUsed(steps, availableModels[request.model_name]), t)]
                 /\ pc' = [pc EXCEPT ![p] = "AM_lock"]
                 /\ stk' = [stk EXCEPT ![p] = <<"mental_model_afterAdd">> \o @]
                 /\ now' = t
    /\ UNCHANGED <<env, store, locks, opsLeft, hist>>

\* the mental_model tool, lines 221-224: the result of AddMentalModel is dropped,
\* GetSessionStats is called
mental_model_afterAdd(p) ==
    /\ Sched(p)
    /\ pc[p] = "mental_model_afterAdd"
    /\ pc' = [pc EXCEPT ![p] = "gs_lock"]
    /\ stk' = [stk EXCEPT ![p] =
                  <<"GT_rlock", "GM_rlock", "ST_build", "mental_model_respond">> \o @]
    /\ NoClock
    /\ UNCHANGED <<env, store, locks, loc, opsLeft, hist>>

\* the response of the mental_model tool, lines 227-243
ModelResponse(sid, data, model, stats) ==
    [kind |-> "model_response",
     status |-> "success",
     model_id |-> data.ID,
     model_info |-> [name |-> model.Name, description |-> model.Description,
                     category |-> model.Category, priority |-> model.Priority],
     steps_used |-> data.Steps,
     has_steps |-> Len(data.Steps) > 0,
     has_conclusion |-> FALSE,
     session_context |->
        [session_id |-> sid, total_mental_models |-> stats.Stores.mental_models]]

mental_model_respond(p) ==
    /\ Sched(p)
    /\ pc[p] = "mental_model_respond"
    /\ loc' = [loc EXCEPT ![p].ret =
                  ModelResponse(loc[p].sid, loc[p].rec,
                                loc[p].req.availableModels[loc[p].req.model_name],
                                loc[p].ret)]
    /\ NoteStats(p)
    /\ Return(p)
    /\ NoClock
    /\ UNCHANGED <<env, store, locks, opsLeft, histT, histM, prevExport>>

\* the debugging_approach tool is called
Call_debugging_approach(p, S) ==
    \E sid \in S, approach \in ApproachNames, issue \in Issues, steps \in RequestSteps :
        Start(p, "debugging_approach", sid,
              [approach_name |-> approach, issue |-> issue, steps |-> steps],
              "debugging_approach_respond", <<"done">>, now)

\* the response of the debugging_approach tool, main_test.go lines 266-275
ApproachResponse(sid, steps, t) ==
    [kind |-> "approach_response",
     status |-> "success",
     approach_id |-> <<t, Len(steps)>>,
     has_steps |-> Len(steps) > 0,
     has_findings |-> FALSE,
     has_resolution |-> FALSE,
     session_context |-> [session_id |-> sid]]

\* the debugging_approach tool, lines 260-279: the approach name and the issue
\* are dropped, the response is built; the storage is not called
debugging_approach_respond(p) ==
    /\ Sched(p)
    /\ pc[p] = "debugging_approach_respond"
    /\ \E t \in ClockReads(now) :
        LET steps == GetStringSlice(loc[p].rec.steps, <<>>)
        IN  /\ loc' = [loc EXCEPT ![p].req = loc[p].rec,
                                  ![p].ret = ApproachResponse(loc[p].sid, steps, t)]
            /\ now' = t
    /\ Return(p)
    /\ UNCHANGED <<env, store, locks, opsLeft, hist>>

\* ------------------------------------------------------------------ listing the catalog
\* the place of a model's name in the order of Go's string comparison
NameRank(name) ==
    LET names == <<"", " ", "Another Model", "First Principles Thinking", "Mine",
                   "My Model", "Same">>
    IN  CHOOSE i \in 1..Len(names) : names[i] = name

\* a faulty sort order, lowest priority first
LessAscending(a, b) ==
    IF a.Model.Priority # b.Model.Priority
    THEN a.Model.Priority < b.Model.Priority
    ELSE NameRank(a.Model.Name) < NameRank(b.Model.Name)

\* the sort order of GetModelsByPriority and GetModelsByCategory (lines 293-298,
\* 319-324): higher priority first, then the lesser name
Less(a, b) ==
    IF a.Model.Priority # b.Model.Priority
    THEN a.Model.Priority > b.Model.Priority
    ELSE NameRank(a.Model.Name) < NameRank(b.Model.Name)

\* GetModelsByPriority: the models with their keys, collected in the map's
\* iteration order and sorted with sort.Slice; every outcome of the sort
GetModelsByPriority(models) ==
    {l \in Orders({[Key |-> key, Model |-> models[key]] : key \in DOMAIN models}) :
        \A i, j \in 1..Len(l) : i < j => ~Less(l[j], l[i])}

\* GetModelsByCategory: the models grouped by category, each group sorted in
\* the same way
GetModelsByCategory(models) ==
    LET categories == {models[key].Category : key \in DOMAIN models}
        group(c) == [key \in {k \in DOMAIN models : models[k].Category = c} |-> models[key]]
    IN  {g \in [categories -> UNION {GetModelsByPriority(group(c)) : c \in categories}] :
            \A c \in categories : g[c] \in GetModelsByPriority(group(c))}

\* the custom model files of the listing: those above, a file whose models tie
\* in priority, one of them with the priority 0 written out, a file whose
\* models tie in priority and name, a file with a negative priority,
\* directories (an empty one, one with a file that is not YAML before a good
\* file, one whose two files give the same key, one with an invalid file
\* before an override of a core model), and files with one model that lacks a
\* name, a description, a category or steps or has them blank, alone or beside
\* a valid model
ListFiles ==
    CustomFiles \cup
    {[kind |-> "file", models |-> [n \in {"my_model"} |-> m]] :
        m \in {CustomModel("", <<"c1">>, "custom", TRUE, 2),
               CustomModel(" ", <<"c1">>, "custom", TRUE, 2),
               [CustomModel("My Model", <<"c1">>, "custom", TRUE, 2) EXCEPT !.Description = ""],
               [CustomModel("My Model", <<"c1">>, "custom", TRUE, 2) EXCEPT !.Description = " "],
               CustomModel("My Model", <<>>, "custom", TRUE, 2),
               CustomModel("My Model", <<"c1", "", "c3">>, "custom", TRUE, 2),
               CustomModel("My Model", <<"c1">>, "", TRUE, 2),
               CustomModel("My Model", <<"c1">>, " ", FALSE, 0)}}
    \cup
    {[kind |-> "file",
      models |-> [my_model |-> CustomModel("My Model", <<"c1">>, "custom", TRUE, 2),
                  other_model |-> CustomModel("Another Model", <<"c1", " ">>,
                                              "analytical", FALSE, 0)]]}
    \cup
    {[kind |-> "dir", models |-> <<>>, files |-> <<>>],
     [kind |-> "dir", models |-> <<>>,
      files |-> <<[kind |-> "malformed", models |-> <<>>],
                  [kind |-> "file",
                   models |-> [n \in {"my_model"} |->
                                  CustomModel("My Model", <<"c1">>, "custom", FALSE, 0)]]>>],
     [kind |-> "dir", models |-> <<>>,
      files |-> <<[kind |-> "file",
                   models |-> [n \in {"my_model"} |->
                                  CustomModel("My Model", <<"c1">>, "custom", TRUE, 2)]],
                  [kind |-> "file",
                   models |-> [n \in {"my_model"} |->
                                  CustomModel("Mine", <<"c2">>, "analytical", TRUE, 3)]]>>],
     [kind |-> "dir", models |-> <<>>,
      files |-> <<[kind |-> "file",
                   models |-> [n \in {"my_model"} |->
                                  CustomModel("My Model", <<" ">>, "custom", FALSE, 0)]],
                  [kind |-> "file",
                   models |-> [n \in {"first_principles"} |->
                                  CustomModel("Mine", <<"c1", "c2">>, "custom", TRUE, 2)]]>>]}
    \cup
    {[kind |-> "file",
      models |-> [my_model |-> CustomModel("My Model", <<"c1">>, "custom", TRUE, 0),
                  other_model |-> CustomModel("Another Model", <<"c1">>, "analytical",
                                              FALSE, 0),
                  top_model |-> CustomModel("Mine", <<"c1">>, "custom", TRUE, 2)]],
     [kind |-> "file",
      models |-> [a_model |-> CustomModel("Same", <<"c1">>, "custom", TRUE, 1),
                  b_model |-> CustomModel("Same", <<"c2">>, "custom", FALSE, 0)]],
     [kind |-> "file",
      models |-> [my_model |-> CustomModel("My Model", <<"c1">>, "analytical",
                                           TRUE, -1)]]}

\* the list_mental_models tool is called
Call_list_mental_models(p) ==
    Start(p, "list_mental_models", None, None, "list_mental_models_respond",
          <<"done">>, now)

\* the list_mental_models tool, main_test.go lines 288-309: the catalog as
\* loaded for this call, sorted and grouped, and the response
list_mental_models_respond(p) ==
    /\ Sched(p)
    /\ pc[p] = "list_mental_models_respond"
    /\ \E source \in ListFiles :
        LET availableModels == LoadMentalModels(source)
        IN  \E modelsByPriority \in GetModelsByPriority(availableModels),
               modelsByCategory \in GetModelsByCategory(availableModels),
               available \in Orders(GetAvailableModels(availableModels)) :
            loc' = [loc EXCEPT
                      ![p].req = [source |-> source, availableModels |-> availableModels],
                      ![p].ret = [kind |-> "list_response",
                                  status |-> "success",
                                  total_models |-> Cardinality(DOMAIN availableModels),
                                  models_by_priority |-> modelsByPriority,
                                  models_by_category |-> modelsByCategory,
                                  available_models |-> available]]
    /\ Return(p)
    /\ NoClock
    /\ UNCHANGED <<env, store, locks, opsLeft, hist>>

\* ------------------------------------------------------------------ the HTTP handlers
\* ThinkingHandler.MentalModel is called
Call_MentalModel(p, S) ==
    \E sid \in S, name \in RequestedModels, problem \in Problems, steps \in RequestSteps :
        Start(p, "MentalModel", sid,
              [model_name |-> name, problem |-> problem, steps |-> steps],
              "MentalModel_validate", <<"done">>, now)

\* ThinkingHandler.MentalModel, thinking.go lines 106-122: the model name is
\* looked up in the core models, the record takes the steps of the request
MentalModel_validate(p) ==
    /\ Sched(p)
    /\ pc[p] = "MentalModel_validate"
    /\ LET request == loc[p].rec
           steps == GetStringSlice(request.steps, <<>>)
           req == request @@
                  [availableModels |-> MentalModels]
       IN  IF request.model_name \notin DOMAIN MentalModels
           THEN /\ loc' = [loc EXCEPT
                             ![p].req = req,
                             ![p].ret = [kind |-> "error", msg |-> "Invalid mental model"]]
                /\ Return(p)
                /\ NoClock
           ELSE \E t \in ClockReads(now) :
                /\ loc' = [loc EXCEPT
                             ![p].req = req,
                             ![p].rec = ModelData(request.model_name, request.problem,
                                                  steps, t)]
                /\ pc' = [pc EXCEPT ![p] = "AM_lock"]
                /\ stk' = [stk EXCEPT ![p] = <<"MentalModel_afterAdd">> \o @]
                /\ now' = t
    /\ UNCHANGED <<env, store, locks, opsLeft, hist>>

\* thinking.go lines 125-135: an error of AddMentalModel ends the request,
\* otherwise GetSessionStats is called
MentalModel_afterAdd(p) ==
    /\ Sched(p)
    /\ pc[p] = "MentalModel_afterAdd"
    /\ IF loc[p].err # None
       THEN /\ loc' = [loc EXCEPT ![p].ret =
                          [kind |-> "error", msg |-> "Failed to add mental model"]]
            /\ Return(p)
       ELSE /\ pc' = [pc EXCEPT ![p] = "gs_lock"]
            /\ stk' = [stk EXCEPT ![p] =
                          <<"GT_rlock", "GM_rlock", "ST_build", "MentalModel_respond">> \o @]
            /\ UNCHANGED loc
    /\ NoClock
    /\ UNCHANGED <<env, store, locks, opsLeft, hist>>

\* the response of ThinkingHandler.MentalModel, thinking.go lines 138-147
HTTPModelResponse(sid, data, stats) ==
    [kind |-> "http_model_response",
     model_id |-> data.ID,
     status |-> "success",
     has_steps |-> Len(data.Steps) > 0,
     has_conclusion |-> data.Conclusion # "",
     session_context |->
        [session_id |-> sid, total_mental_models |-> stats.Stores.mental_models]]

MentalModel_respond(p) ==
    /\ Sched(p)
    /\ pc[p] = "MentalModel_respond"
    /\ loc' = [loc EXCEPT ![p].ret = HTTPModelResponse(loc[p].sid, loc[p].rec, loc[p].ret)]
    /\ NoteStats(p)
    /\ Return(p)
    /\ NoClock
    /\ UNCHANGED <<env, store, locks, opsLeft, histT, histM, prevExport>>

\* "debugging_" + request.ApproachName
DebuggingModelName(approach) ==
    CASE approach = "binary_search" -> "debugging_binary_search"

\* MentalModelData as ThinkingHandler.DebuggingApproach builds it (thinking.go
\* lines 170-178); findings and resolution are not given
ApproachData(approach, issue, steps, t) ==
    [ID |-> NoID, ModelName |-> DebuggingModelName(approach), Problem |-> issue,
     Steps |-> steps, Reasoning |-> "", Conclusion |-> "", Confidence |-> 0,
     CreatedAt |-> t]

\* ThinkingHandler.DebuggingApproach is called
Call_DebuggingApproach(p, S) ==
    \E sid \in S, approach \in ApproachNames, issue \in Issues, steps \in RequestSteps :
        Start(p, "DebuggingApproach", sid,
              [approach_name |-> approach, issue |-> issue, steps |-> steps],
              "DebuggingApproach_build", <<"done">>, now)

\* thinking.go lines 170-181: the record is built and handed to AddMentalModel
DebuggingApproach_build(p) ==
    /\ Sched(p)
    /\ pc[p] = "DebuggingApproach_build"
    /\ \E t \in ClockReads(now) :
        LET request == loc[p].rec
        IN  /\ loc' = [loc EXCEPT
                         ![p].req = request,
                         ![p].rec = ApproachData(request.approach_name, request.issue,
                                                 GetStringSlice(request.steps, <<>>), t)]
            /\ now' = t
    /\ pc' = [pc EXCEPT ![p] = "AM_lock"]
    /\ stk' = [stk EXCEPT ![p] = <<"DebuggingApproach_respond">> \o @]
    /\ UNCHANGED <<env, store, locks, opsLeft, hist>>

\* thinking.go lines 181-193: an error of AddMentalModel ends the request,
\* otherwise the response carries the identifier of the stored record
DebuggingApproach_respond(p) ==
    /\ Sched(p)
    /\ pc[p] = "DebuggingApproach_respond"
    /\ loc' = [loc EXCEPT ![p].ret =
                  IF loc[p].err # None
                  THEN [kind |-> "error", msg |-> "Failed to add debugging approach"]
                  ELSE [kind |-> "http_approach_response",
                        approach_id |-> loc[p].rec.ID,
                        status |-> "success",
                        has_findings |-> loc[p].rec.Reasoning # "",
                        has_resolution |-> loc[p].rec.Conclusion # ""]]
    /\ Return(p)
    /\ NoClock
    /\ UNCHANGED <<env, store, locks, opsLeft, hist>>

Finish(p) ==
    /\ Sched(p)
    /\ pc[p] = "done"
    /\ pc' = [pc EXCEPT ![p] = "idle"]
    /\ loc' = [loc EXCEPT ![p] = NoLoc]
    /\ IF loc[p].op = "GetSessionStats"
       THEN NoteStats(p)
       ELSE UNCHANGED <<prevStats, dirtyAny, dirtyOwn>>
    /\ IF loc[p].op = "ExportSession"
       THEN prevExport' = [prevExport EXCEPT ![loc[p].sid] = ExportView(loc[p].ret)]
       ELSE UNCHANGED prevExport
    /\ NoClock
    /\ UNCHANGED <<env, store, locks, stk, opsLeft, histT, histM>>

\* ------------------------------------------------------------------ the Go runtime
\* the labels whose step writes the session map without the session lock
\* (AddThought line 79, AddMentalModel line 123)
UnlockedMapWrite(p) == pc[p] \in {"AT_update", "AM_update"}

\* the labels whose step accesses the session map inside the session lock
LockedMapAccess(p) == pc[p] \in {"gs_body", "GS_body", "CS_body"}

\* a map write that runs while another goroutine accesses the same map: the
\* runtime may detect it and stop the process ("fatal error: concurrent map writes")
ConcurrentMapAccess ==
    /\ ~crashed
    /\ \E p \in Procs, q \in Procs :
          /\ p # q
          /\ UnlockedMapWrite(p)
          /\ UnlockedMapWrite(q) \/ LockedMapAccess(q)
    /\ crashed' = TRUE
    /\ UNCHANGED <<environ, cfgMax, now, store, locks, pc, stk, loc, opsLeft, hist>>

\* ------------------------------------------------------------------ specifications
\* the operations a caller may start, on the sessions S
Calls(p, S) ==
    \/ Call_handleSequentialThinking(p, S)
    \/ Call_AddMentalModel(p, S)
    \/ Call_GetSession(p, S)
    \/ Call_CreateSession(p, S)
    \/ Call_GetSessionStats(p, S)
    \/ Call_ExportSession(p, S)

\* the steps inside the operations
Steps(p) ==
    \/ gs_lock(p)
    \/ gs_body(p)
    \/ AT_lock(p)
    \/ AT_check(p)
    \/ AT_update(p)
    \/ AM_lock(p)
    \/ AM_insert(p)
    \/ AM_update(p)
    \/ GT_rlock(p)
    \/ GT_body(p)
    \/ GM_rlock(p)
    \/ GM_body(p)
    \/ GS_rlock(p)
    \/ GS_body(p)
    \/ CS_lock(p)
    \/ CS_body(p)
    \/ ST_build(p)
    \/ EX_build(p)
    \/ HST_afterAdd(p)
    \/ HST_respond(p)
    \/ Finish(p)

Next == \E p \in Procs : Calls(p, SessionIDs) \/ Steps(p)

\* the callers of SpecConc work on one session
ConcSessionIDs == {"s1"}

NextConc ==
    \/ \E p \in Procs : Calls(p, ConcSessionIDs) \/ Steps(p)
    \/ ConcurrentMapAccess

\* the tools and the HTTP handlers that apply models, called one after the other
\* on one session
ToolSessionIDs == {"s1"}

ToolCalls(p, S) ==
    \/ Call_mental_model(p, S)
    \/ Call_debugging_approach(p, S)
    \/ Call_MentalModel(p, S)
    \/ Call_DebuggingApproach(p, S)

ToolSteps(p) ==
    \/ mental_model_lookup(p)
    \/ mental_model_afterAdd(p)
    \/ mental_model_respond(p)
    \/ debugging_approach_respond(p)
    \/ MentalModel_validate(p)
    \/ MentalModel_afterAdd(p)
    \/ MentalModel_respond(p)
    \/ DebuggingApproach_build(p)
    \/ DebuggingApproach_respond(p)
    \/ gs_lock(p)
    \/ gs_body(p)
    \/ AM_lock(p)
    \/ AM_insert(p)
    \/ AM_update(p)
    \/ GT_rlock(p)
    \/ GT_body(p)
    \/ GM_rlock(p)
    \/ GM_body(p)
    \/ ST_build(p)
    \/ Finish(p)

NextTools == \E p \in Procs : ToolCalls(p, ToolSessionIDs) \/ ToolSteps(p)

Spec == Init /\ [][Next]_vars

SpecConc == InitConc /\ [][NextConc]_vars

\* the callers of SpecConc under a fair scheduler: a goroutine that can take
\* its next step takes it.  The cap is 1, under which one thought is taken and
\* the next is refused
InitFair == InitConc /\ cfgMax = 1

SpecConcFair == InitFair /\ [][NextConc]_vars /\ \A p \in Procs : WF_vars(Steps(p))

SpecTools == InitTools /\ [][NextTools]_vars

\* one caller asks for the statistics of a session while another submits a
\* thought to it and then applies a model to it
InitSnap == InitStore /\ cfgMax = 2 /\ opsLeft = [p \in Procs |-> IF p = "p1" THEN 1 ELSE 2]

NextSnap ==
    \/ Call_GetSessionStats("p1", ConcSessionIDs)
    \/ opsLeft["p2"] = 2 /\ Call_handleSequentialThinking("p2", ConcSessionIDs)
    \/ opsLeft["p2"] = 1 /\ Call_AddMentalModel("p2", ConcSessionIDs)
    \/ \E p \in Procs :
        \/ gs_lock(p)
        \/ gs_body(p)
        \/ AT_lock(p)
        \/ AT_check(p)
        \/ AT_update(p)
        \/ AM_lock(p)
        \/ AM_insert(p)
        \/ AM_update(p)
        \/ GT_rlock(p)
        \/ GT_body(p)
        \/ GM_rlock(p)
        \/ GM_body(p)
        \/ ST_build(p)
        \/ HST_afterAdd(p)
        \/ HST_respond(p)
        \/ Finish(p)
    \/ ConcurrentMapAccess

SpecSnap == InitSnap /\ [][NextSnap]_vars

\* one caller submits thoughts to a session with the cap 1 and creates the
\* session anew, in one call more than the other serial callers make
InitRecreate ==
    /\ InitStore
    /\ cfgMax = 1
    /\ opsLeft = [p \in Procs |-> IF p = "p1" THEN MaxOps + 1 ELSE 0]

NextRecreate ==
    \E p \in Procs :
        \/ Call_handleSequentialThinking(p, ConcSessionIDs)
        \/ Call_CreateSession(p, ConcSessionIDs)
        \/ gs_lock(p)
        \/ gs_body(p)
        \/ AT_lock(p)
        \/ AT_check(p)
        \/ AT_update(p)
        \/ CS_lock(p)
        \/ CS_body(p)
        \/ GT_rlock(p)
        \/ GT_body(p)
        \/ GM_rlock(p)
        \/ GM_body(p)
        \/ ST_build(p)
        \/ HST_afterAdd(p)
        \/ HST_respond(p)
        \/ Finish(p)

SpecRecreate == InitRecreate /\ [][NextRecreate]_vars

\* the list_mental_models tool, called one call after the other
NextCatalog ==
    \E p \in Procs :
        \/ Call_list_mental_models(p)
        \/ list_mental_models_respond(p)
        \/ Finish(p)

SpecCatalog == InitTools /\ [][NextCatalog]_vars

\* the sequential_thinking tool, called one call after the other
NextPayload ==
    \E p \in Procs :
        \/ Call_sequential_thinking(p)
        \/ gs_lock(p)
        \/ gs_body(p)
        \/ AT_lock(p)
        \/ AT_check(p)
        \/ AT_update(p)
        \/ GT_rlock(p)
        \/ GT_body(p)
        \/ GM_rlock(p)
        \/ GM_body(p)
        \/ ST_build(p)
        \/ HST_afterAdd(p)
        \/ HST_respond(p)
        \/ Finish(p)

SpecPayload == Init /\ [][NextPayload]_vars

\* the sequential_thinking tool of a process configured through its environment
SpecConfig == InitConfig /\ [][NextPayload]_vars

\* ------------------------------------------------------------------ properties
\* the session record the map holds for s
Record(s) == heap[sessions[s]]

\* AddThought has inserted caller p's thought and has not yet counted it
InsertedNotCounted(p) == pc[p] = "AT_update"

\* caller p is inside the read lock of GetThoughts, about to read the thought map
ReadsThoughts(p) == pc[p] = "GT_body"

\* GetThoughts has just returned to caller p (GetMentalModels is called next)
ThoughtsReturned(p) == pc[p] = "GM_rlock"

\* GetMentalModels has just returned to caller p
ModelsReturned(p) == pc[p] \in {"ST_build", "EX_build"}

\* C1: for a cap C >= 0, a session's thought count is the number N of its
\* successful AddThought calls, and no AddThought is accepted once N = C,
\* whatever other storage operations ran in between
C1_CountIsSuccesses ==
    cfgMax >= 0 =>
        /\ \A s \in DOMAIN sessions : Record(s).ThoughtCount = Len(histT[s])
        /\ \A p \in Procs : InsertedNotCounted(p) => Len(histT[loc[p].sid]) < cfgMax

\* C1: a session with an appended thought has been created again
C1_Recreated ==
    \E s \in DOMAIN sessions : Record(s).ThoughtCount = 0 /\ Len(histT[s]) = 1

\* every caller has its answer from handleSequentialThinking, a success
AllSubmitted ==
    \A p \in Procs :
        /\ pc[p] = "done"
        /\ loc[p].op = "handleSequentialThinking"
        /\ loc[p].ret.kind = "thought_response"

\* C2: when N concurrent callers have each submitted one thought to one session
\* and the cap is at least N, the store holds N thoughts with pairwise distinct
\* identifiers and the session's thought count is N
C2_NoLostThought ==
    (AllSubmitted /\ cfgMax >= Cardinality(Procs)) =>
        /\ Cardinality(DOMAIN thoughts) = Cardinality(Procs)
        /\ \A p, q \in Procs : p # q => loc[p].rec.ID # loc[q].rec.ID
        /\ \A s \in ConcSessionIDs : Record(s).ThoughtCount = Cardinality(Procs)

\* C2: two callers were answered with the same thought identifier
C2_SameID ==
    /\ AllSubmitted
    /\ \E p, q \in Procs : p # q /\ loc[p].rec.ID = loc[q].rec.ID

\* C3: no reader inside the read lock of the thought map sees a thought that is
\* inserted and not yet counted: while a caller reads the thoughts, no AddThought
\* is between its insert and its count increment
C3_InsertAndCountAtomic ==
    \A p, q \in Procs : ReadsThoughts(p) => ~InsertedNotCounted(q)

\* C3: a reader waits for the read lock while AddThought is between insert and count
C3_ReaderWaits ==
    \E p, q \in Procs : pc[p] = "GT_rlock" /\ InsertedNotCounted(q)

\* C4, as stated: every session record's ThoughtCount is at most the configured cap
C4_CountWithinCap ==
    \A i \in 1..Len(heap) : heap[i].ThoughtCount <= cfgMax

\* C4, amended: every session record's ThoughtCount is at most the configured
\* cap, or 0 when the configured cap is negative
C4_CountWithinCapOrZero ==
    \A i \in 1..Len(heap) : heap[i].ThoughtCount <= MaxOf(cfgMax, 0)

\* C4: an AddThought was refused on a session that holds as many thoughts as a
\* positive cap allows
C4_RefusedAtCap ==
    \E p \in Procs :
        /\ loc[p].err = "thought limit reached"
        /\ cfgMax > 0
        /\ heap[loc[p].sess].ThoughtCount = cfgMax

\* C5: GetThoughts(s) returns exactly the thoughts appended to s, and
\* GetMentalModels(s) exactly the applications appended to s
C5_ListsOwnRecords ==
    \A p \in Procs :
        /\ ThoughtsReturned(p) => SeqToSet(loc[p].ths) = SeqToSet(histT[loc[p].sid])
        /\ ModelsReturned(p) => SeqToSet(loc[p].mms) = SeqToSet(histM[loc[p].sid])

\* C5: GetThoughts returned a thought to a session nothing was appended to
C5_ForeignThought ==
    \E p \in Procs :
        ThoughtsReturned(p) /\ loc[p].ths # <<>> /\ histT[loc[p].sid] = <<>>

\* the session record GetSessionStats(s) would read now: the one in the map, or
\* the one getSession would create
RecordOrNew(s) == IF s \in DOMAIN sessions THEN Record(s) ELSE NewSession(s, now)

\* what GetSessionStats(s) would return now, timestamps and tool order aside
StatsResult(s) ==
    LET ths == CHOOSE l \in ThoughtsFor(s) : TRUE
        mms == CHOOSE l \in ModelsFor(s) : TRUE
        toolsList == CHOOSE l \in Orders(ToolsUsedOf(ths, mms)) : TRUE
    IN  StatsView(StatsOf(s, RecordOrNew(s), ths, mms, toolsList))

\* the records ExportSession(s) would return now
ExportRecords(s) ==
    LET ths == CHOOSE l \in ThoughtsFor(s) : TRUE
        mms == CHOOSE l \in ModelsFor(s) : TRUE
    IN  [thoughts |-> SeqToSet(ths), mental_models |-> SeqToSet(mms)]

\* caller p is inside an append to its session
Appends(p) == loc[p].op \in {"handleSequentialThinking", "AddMentalModel"}

\* C6: a step of an AddThought or AddMentalModel on session A changes neither
\* what GetSessionStats(B) returns nor the records ExportSession(B) returns, for
\* every other session B
C6_SessionIsolation ==
    [][\A p \in Procs : Appends(p) =>
          \A b \in SessionIDs \ {loc[p].sid} :
              /\ StatsResult(b)' = StatsResult(b)
              /\ ExportRecords(b)' = ExportRecords(b)]_vars

\* C6: a thought appended to one session is counted in the statistics of another
C6_CountedElsewhere ==
    \E a, b \in SessionIDs :
        /\ a # b
        /\ histT[a] # <<>> /\ histT[b] = <<>>
        /\ StatsResult(b).ThoughtCount > 0

\* caller p holds the statistics GetSessionStats has just built
HasStats(p) == loc[p].ret.kind = "stats"

\* C7: with a cap that is not negative, the remainingThoughts that
\* GetSessionStats reports is cap - thoughtCount and is never negative
C7_RemainingNotNegative ==
    \A p \in Procs :
        (HasStats(p) /\ cfgMax >= 0) =>
            /\ loc[p].ret.RemainingThoughts = cfgMax - loc[p].ret.ThoughtCount
            /\ loc[p].ret.RemainingThoughts >= 0

\* C7: statistics with a negative remainder under a positive cap
C7_NegativeRemainder ==
    \E p \in Procs : HasStats(p) /\ cfgMax > 0 /\ loc[p].ret.RemainingThoughts < 0

\* caller p holds statistics of a session whose last statistics no write followed
SecondStats(p) ==
    /\ HasStats(p)
    /\ prevStats[loc[p].sid].kind = "stats"
    /\ ~dirtyAny[loc[p].sid]

\* C8: two GetSessionStats of a session with no write in between return the
\* same thoughtCount, totalOperations and set of toolsUsed
C8_StatsIdempotent ==
    \A p \in Procs :
        SecondStats(p) =>
            /\ loc[p].ret.ThoughtCount = prevStats[loc[p].sid].ThoughtCount
            /\ loc[p].ret.TotalOperations = prevStats[loc[p].sid].TotalOperations
            /\ SeqToSet(loc[p].ret.ToolsUsed) = prevStats[loc[p].sid].ToolsUsed

\* C8: the second of two GetSessionStats, the first of which created the session
C8_SecondAfterCreating ==
    \E p \in Procs :
        /\ SecondStats(p)
        /\ loc[p].op = "GetSessionStats"
        /\ Len(heap) = 1
        /\ heap[1].CreatedAt = heap[1].LastAccessedAt
        /\ thoughts = <<>> /\ mentalModels = <<>>

\* caller p holds the export ExportSession has just built
HasExport(p) == loc[p].ret.kind = "export"

\* C9: an export of a session holds exactly the thoughts and the applications
\* appended to that session, each as it was stored
C9_ExportRoundTrip ==
    \A p \in Procs :
        HasExport(p) =>
            /\ Len(loc[p].ret.Data.thoughts) = Len(histT[loc[p].sid])
            /\ Len(loc[p].ret.Data.mental_models) = Len(histM[loc[p].sid])
            /\ SeqToSet(loc[p].ret.Data.thoughts) = SeqToSet(histT[loc[p].sid])
            /\ SeqToSet(loc[p].ret.Data.mental_models) = SeqToSet(histM[loc[p].sid])

\* C9: an export with more thoughts than were appended to the session
C9_ExtraThoughts ==
    \E p \in Procs :
        HasExport(p) /\ Len(loc[p].ret.Data.thoughts) > Len(histT[loc[p].sid])

\* caller p holds an export of a session whose last export no write followed
SecondExport(p) ==
    /\ HasExport(p)
    /\ prevExport[loc[p].sid].kind = "export"

CreatesSession(s) ==
    /\ Len(heap') = Len(heap) + 1
    /\ SubSeq(heap', 1, Len(heap)) = heap
    /\ heap'[Len(heap')].ID = s
    /\ heap'[Len(heap')].ThoughtCount = 0
    /\ heap'[Len(heap')].IsActive
    /\ sessions' = Put(sessions, s, Len(heap'))

\* caller p has its answer from the operation op
Answered(p, op) == pc[p] = "done" /\ loc[p].op = op

\* C11: GetSessionStats never fails; a step of it changes no thought and no
\* application; for a session without a record it creates the record (zero
\* thought count, active) and changes nothing else; for a session with a
\* record it changes no session record at all, last-access time included
C11_StatsCreatesOrReads ==
    /\ [][\A p \in Procs : loc[p].op = "GetSessionStats" =>
            /\ UNCHANGED <<thoughts, mentalModels>>
            /\ IF loc[p].sid \in DOMAIN sessions
               THEN UNCHANGED <<sessions, heap>>
               ELSE UNCHANGED <<sessions, heap>> \/ CreatesSession(loc[p].sid)]_vars
    /\ [](\A p \in Procs :
            Answered(p, "GetSessionStats") =>
                HasStats(p) /\ loc[p].sid \in DOMAIN sessions)

\* C11: GetSessionStats has answered for a session that holds a thought
C11_StatsOfUsedSession ==
    \E p \in Procs :
        /\ Answered(p, "GetSessionStats")
        /\ loc[p].sid \in DOMAIN sessions
        /\ Record(loc[p].sid).ThoughtCount > 0

EverCreated(s) == \E i \in 1..Len(heap) : heap[i].ID = s

\* C13: the strict GetSession answers with the not-found error exactly when no
\* session was ever created for the identifier, with the session otherwise,
\* and no step of it changes a session, a thought or an application
C13_StrictLookup ==
    /\ [][\A p \in Procs : loc[p].op = "GetSession" => UNCHANGED store]_vars
    /\ [](\A p \in Procs :
            Answered(p, "GetSession") =>
                /\ loc[p].ret.kind = "error" <=> ~EverCreated(loc[p].sid)
                /\ loc[p].ret.kind = "session" <=> EverCreated(loc[p].sid)
                /\ loc[p].ret.kind = "session" => heap[loc[p].ret.sess].ID = loc[p].sid)

\* C13: the strict GetSession has found a session
C13_Found ==
    \E p \in Procs : Answered(p, "GetSession") /\ loc[p].ret.kind = "session"

\* caller p takes its step inside getSession
GetSessionStep(p) == pc[p] = "gs_body" /\ pc'[p] # "gs_body"

\* callers p and q both hold a session from getSession for the same identifier
BothGot(p, q) ==
    /\ p # q
    /\ loc[p].sess # NoRef /\ loc[q].sess # NoRef
    /\ loc[p].sid = loc[q].sid

\* C14: getSession returns a session in every case; for an identifier without
\* a record it creates one record with ThoughtCount 0, TotalOperations 0,
\* IsActive and the configured cap; for an identifier with a record it returns
\* that record and changes nothing; and callers that race on one identifier
\* get the same, single record
C14_GetOrCreate ==
    /\ [][\A p \in Procs : GetSessionStep(p) =>
            IF loc[p].sid \in DOMAIN sessions
            THEN /\ UNCHANGED <<sessions, heap>>
                 /\ loc'[p].sess = sessions[loc[p].sid]
            ELSE /\ CreatesSession(loc[p].sid)
                 /\ heap'[Len(heap')].TotalOperations = 0
                 /\ heap'[Len(heap')].RemainingThoughts = cfgMax
                 /\ loc'[p].sess = Len(heap')]_vars
    /\ [](\A p, q \in Procs :
            BothGot(p, q) =>
                /\ loc[p].sess = loc[q].sess
                /\ Cardinality({i \in 1..Len(heap) : heap[i].ID = loc[p].sid}) = 1)

\* C14: two callers race on an identifier without a record: one is inside
\* getSession, the other waits for the session lock
C14_Race ==
    \E p, q \in Procs :
        /\ pc[p] = "gs_body" /\ pc[q] = "gs_lock"
        /\ loc[p].sid = loc[q].sid
        /\ loc[p].sid \notin DOMAIN sessions

\* the thought counts of the session records that exist before the step
ThoughtCounts == [i \in 1..Len(heap) |-> heap[i].ThoughtCount]

\* C15: AddMentalModel has no cap: it returns no error and has its application
\* in the store, whatever the session's thought count and the number of
\* applications stored, and no step of it changes a session's thought count
C15_NoCapOnModels ==
    /\ [][\A p \in Procs : loc[p].op = "AddMentalModel" =>
            \A i \in 1..Len(heap) : heap'[i].ThoughtCount = ThoughtCounts[i]]_vars
    /\ [](\A p \in Procs :
            Answered(p, "AddMentalModel") =>
                /\ loc[p].err = None
                /\ loc[p].rec.ID \in DOMAIN mentalModels
                /\ mentalModels[loc[p].rec.ID] = loc[p].rec
                /\ loc[p].sid \in DOMAIN sessions)

\* C15: AddMentalModel has answered for a session whose thought count is at a
\* positive cap
C15_ModelAtCap ==
    \E p \in Procs :
        /\ Answered(p, "AddMentalModel")
        /\ cfgMax > 0
        /\ Record(loc[p].sid).ThoughtCount = cfgMax

\* the caller's record as AddThought stores it: only the identifier (when empty)
\* and the creation time are set by the store
StoredAs(rec, stored) ==
    /\ stored.ThoughtNumber = rec.ThoughtNumber
    /\ stored.TotalThoughts = rec.TotalThoughts
    /\ [stored EXCEPT !.ID = rec.ID, !.CreatedAt = rec.CreatedAt] = rec

\* C19: AddThought does not validate sequence numbers: below the cap the limit
\* check always goes on to insert the record with the thought number and the
\* total exactly as supplied, whatever they are, and the call then returns no
\* error
C19_NumbersNotValidated ==
    /\ [][\A p \in Procs :
            (/\ pc[p] = "AT_check"
             /\ pc'[p] # "AT_check"
             /\ heap[loc[p].sess].ThoughtCount < cfgMax)
            => /\ pc'[p] = "AT_update"
               /\ StoredAs(loc[p].rec, loc'[p].rec)
               /\ loc'[p].rec.ID \in DOMAIN thoughts'
               /\ thoughts'[loc'[p].rec.ID] = loc'[p].rec]_vars
    /\ [][\A p \in Procs :
            (pc[p] = "AT_update" /\ pc'[p] # "AT_update") => loc'[p].err = None]_vars

\* C19: two stored thoughts of one session that both carry the number 2 with an
\* announced total of 1
C19_BeyondTotalTwice ==
    \E s \in SessionIDs, i, j \in DOMAIN thoughts :
        /\ i # j
        /\ Len(histT[s]) = 2
        /\ thoughts[i] = histT[s][1] /\ thoughts[j] = histT[s][2]
        /\ thoughts[i].ThoughtNumber = 2 /\ thoughts[j].ThoughtNumber = 2
        /\ thoughts[i].TotalThoughts = 1 /\ thoughts[j].TotalThoughts = 1
        /\ \A p \in Procs : pc[p] = "done" /\ loc[p].err = None

\* C20: stored thoughts and applications are append-only: every step keeps each
\* stored record under its identifier, unaltered
C20_AppendOnly ==
    [][/\ \A id \in DOMAIN thoughts :
            id \in DOMAIN thoughts' /\ thoughts'[id] = thoughts[id]
       /\ \A id \in DOMAIN mentalModels :
            id \in DOMAIN mentalModels' /\ mentalModels'[id] = mentalModels[id]]_vars

\* C20: two thoughts were accepted for a session and the store holds one record
C20_Replaced ==
    \E s \in SessionIDs :
        /\ Len(histT[s]) = 2
        /\ histT[s][1].ID = histT[s][2].ID
        /\ histT[s][1] # histT[s][2]
        /\ Cardinality(DOMAIN thoughts) = 1
        /\ Record(s).ThoughtCount = 2

\* the operations that apply a debugging approach, and their successful results
DebuggingOps == {"debugging_approach", "DebuggingApproach"}
ApproachSuccess(r) == r.kind \in {"approach_response", "http_approach_response"}

\* C16: after every successful debugging call, by the tool or by the HTTP
\* handler, the application store holds a record whose model name is
\* "debugging_" + approachName and whose problem is the issue
C16_DebuggingStored ==
    \A p \in Procs :
        (/\ loc[p].op \in DebuggingOps
         /\ pc[p] = "done"
         /\ ApproachSuccess(loc[p].ret))
        => \E id \in DOMAIN mentalModels :
              /\ mentalModels[id].ModelName = DebuggingModelName(loc[p].req.approach_name)
              /\ mentalModels[id].Problem = loc[p].req.issue

\* C16: the debugging_approach tool has answered with success and the store
\* holds no application and no session
C16_NothingStored ==
    \E p \in Procs :
        /\ Answered(p, "debugging_approach")
        /\ ApproachSuccess(loc[p].ret)
        /\ mentalModels = <<>>
        /\ sessions = <<>>

\* the operations that apply a mental model, and their first step
ModelOps == {"mental_model", "MentalModel"}
LooksUp(p) ==
    /\ pc[p] \in {"mental_model_lookup", "MentalModel_validate"}
    /\ pc'[p] # pc[p]

\* the call of p asks for a model that the catalog it consulted does not have
UnknownModel(r) == r.model_name \notin DOMAIN r.availableModels

\* C17: applying a model whose name is not a key of the catalog ends at the
\* lookup with an error result and leaves thoughts, applications, the session
\* map and the session records as they were
C17_UnknownModelRefused ==
    /\ [][\A p \in Procs :
            (LooksUp(p) /\ UnknownModel(loc'[p].req))
            => /\ pc'[p] = "done"
               /\ loc'[p].ret.kind = "error"
               /\ UNCHANGED store]_vars
    /\ [](\A p \in Procs :
            (pc[p] = "done" /\ loc[p].op \in ModelOps /\ UnknownModel(loc[p].req))
            => loc[p].ret.kind = "error")

\* C17: the mental_model tool has refused "no_such_model", naming
\* first_principles among the available models, while the store holds the one
\* application of an earlier call
C17_RefusedAfterStored ==
    \E p \in Procs :
        /\ Answered(p, "mental_model")
        /\ loc[p].req.model_name = "no_such_model"
        /\ loc[p].ret.kind = "error"
        /\ \E i \in 1..Len(loc[p].ret.available) :
              loc[p].ret.available[i][1] = "first_principles"
        /\ Cardinality(DOMAIN mentalModels) = 1
        /\ Len(histM[loc[p].sid]) = 1

\* the steps a request supplies: none when the list is absent
Supplied(r) == IF r.steps.present THEN r.steps.value ELSE <<>>

ToolsOfSession(s) ==
    (IF Len(histT[s]) > 0 THEN {"sequential-thinking"} ELSE {})
        \cup (IF Len(histM[s]) > 0 THEN {"mental-model"} ELSE {})

\* C21: the toolsUsed of every GetSessionStats result for session s holds
\* "sequential-thinking" exactly when s has a thought, "mental-model" exactly
\* when s has an application, each once and nothing else
C21_ToolsUsedExact ==
    \A p \in Procs :
        (Answered(p, "GetSessionStats") /\ HasStats(p)) =>
            /\ SeqToSet(loc[p].ret.ToolsUsed) = ToolsOfSession(loc[p].sid)
            /\ Len(loc[p].ret.ToolsUsed) = Cardinality(ToolsOfSession(loc[p].sid))

\* C21: statistics of a session without appends that list a tool
C21_ToolOfOtherSession ==
    \E p \in Procs :
        /\ Answered(p, "GetSessionStats")
        /\ HasStats(p)
        /\ histT[loc[p].sid] = <<>>
        /\ histM[loc[p].sid] = <<>>
        /\ loc[p].ret.ToolsUsed # <<>>

\* C22: when handleSequentialThinking has answered with success, the response
\* carries the identifier of a stored thought that has the content and the
\* thought number of the call, and every list GetThoughts can return for the
\* session holds that thought
C22_SubmittedThoughtStored ==
    \A p \in Procs :
        (Answered(p, "handleSequentialThinking") /\ loc[p].ret.kind = "thought_response")
        => LET id == loc[p].ret.thought_id
           IN  /\ loc[p].ret.status = "success"
               /\ id \in DOMAIN thoughts
               /\ thoughts[id].Thought = loc[p].req.thought
               /\ thoughts[id].ThoughtNumber = loc[p].req.thoughtNumber
               /\ \A l \in ThoughtsFor(loc[p].sid) : thoughts[id] \in SeqToSet(l)

\* C22: a submission with thought number 2 has answered with success as the
\* second stored thought
C22_SecondSubmission ==
    \E p \in Procs :
        /\ Answered(p, "handleSequentialThinking")
        /\ loc[p].ret.kind = "thought_response"
        /\ loc[p].req.thoughtNumber = 2
        /\ Cardinality(DOMAIN thoughts) = 2

\* C23: no step lowers the LastAccessedAt of a session: neither of the record
\* the session map holds for an identifier nor of any session record
C23_LastAccessMonotone ==
    [][/\ \A s \in DOMAIN sessions :
            s \in DOMAIN sessions' /\
            heap'[sessions'[s]].LastAccessedAt >= Record(s).LastAccessedAt
       /\ \A i \in 1..Len(heap) :
            heap'[i].LastAccessedAt >= heap[i].LastAccessedAt]_vars

\* C23: the only record of a session was touched by an AddMentalModel that
\* stored its application at time 1, and its LastAccessedAt is 0
C23_WentBack ==
    \E s \in SessionIDs :
        /\ s \in DOMAIN sessions
        /\ Len(heap) = 1
        /\ \E i \in 1..Len(histM[s]) : histM[s][i].CreatedAt = 1
        /\ Record(s).LastAccessedAt = 0
        /\ \A p \in Procs : pc[p] = "done"

\* record a stands before record b in the list l
Precedes(l, a, b) == \E i, j \in 1..Len(l) : i < j /\ l[i] = a /\ l[j] = b

\* the list l keeps the order of the appends h, for the records of h it holds
InsertionOrder(l, h) ==
    \A i, j \in 1..Len(h) :
        (i < j /\ h[i] # h[j] /\ {h[i], h[j]} \subseteq SeqToSet(l))
        => Precedes(l, h[i], h[j])

\* C24: every list GetThoughts or GetMentalModels has returned holds the
\* records of each session in the order in which they were appended
C24_InsertionOrder ==
    \A p \in Procs :
        /\ ThoughtsReturned(p) => \A s \in SessionIDs : InsertionOrder(loc[p].ths, histT[s])
        /\ ModelsReturned(p) => \A s \in SessionIDs : InsertionOrder(loc[p].mms, histM[s])

\* C24: GetThoughts has returned the two thoughts of a session, the second first
C24_Reversed ==
    \E p \in Procs, s \in SessionIDs :
        /\ ThoughtsReturned(p)
        /\ Len(histT[s]) = 2
        /\ loc[p].ths = <<histT[s][2], histT[s][1]>>
        /\ histT[s][1] # histT[s][2]

\* the payload has every required argument with its type
ValidPayload(args) ==
    \A key \in DOMAIN RequiredArgs :
        key \in DOMAIN args /\ args[key].type = RequiredArgs[key]

\* C25: a sequential_thinking call whose payload lacks a required argument or
\* has one of another type changes nothing in the store and ends with an error
\* result
C25_BadPayloadRefused ==
    /\ [][\A p \in Procs :
            (loc[p].op = "sequential_thinking" /\ ~ValidPayload(loc[p].req))
            => UNCHANGED store]_vars
    /\ [](\A p \in Procs :
            (Answered(p, "sequential_thinking") /\ ~ValidPayload(loc[p].req))
            => loc[p].ret.kind = "error")

\* C25: a call without session_id has answered with success, and the session
\* map holds a session with the empty identifier that counts one thought
C25_StoredWithoutSession ==
    \E p \in Procs :
        /\ Answered(p, "sequential_thinking")
        /\ "session_id" \notin DOMAIN loc[p].req
        /\ loc[p].ret.kind = "thought_response"
        /\ "" \in DOMAIN sessions
        /\ Record("").ThoughtCount = 1
        /\ loc[p].ret.thought_id \in DOMAIN thoughts

\* C26: the remaining_thoughts of every successful sequential thinking response
\* is the configured cap minus the total_thoughts of that response
C26_RemainingFromCap ==
    \A p \in Procs :
        (Answered(p, "handleSequentialThinking") /\ loc[p].ret.kind = "thought_response")
        => loc[p].ret.session_context.remaining_thoughts =
               cfgMax - loc[p].ret.session_context.total_thoughts

\* C26: under the cap 1 the response to the one accepted thought reports 99
\* remaining thoughts
C26_NinetyNineLeft ==
    \E p \in Procs :
        /\ Answered(p, "handleSequentialThinking")
        /\ loc[p].ret.kind = "thought_response"
        /\ cfgMax = 1
        /\ loc[p].ret.session_context.total_thoughts = 1
        /\ loc[p].ret.session_context.remaining_thoughts = 99

\* the files of a custom models path that load: the file itself, or the files
\* of the directory, when they are YAML and every model in them is valid
LoadedFiles(source) ==
    {f \in (IF source.kind = "dir" THEN {source.files[i] : i \in 1..Len(source.files)}
            ELSE {source}) :
        f.kind = "file" /\ ValidModels(f.models)}

\* the model is the custom model as its file defines it, with the priority
\* written in the file when that is above or below 0
IsCustom(model, custom) ==
    /\ model.Name = custom.Name
    /\ model.Description = custom.Description
    /\ model.Steps = custom.Steps
    /\ model.Category = custom.Category
    /\ (custom.Priority.present /\ custom.Priority.value # 0)
        => model.Priority = custom.Priority.value

\* C27: LoadMentalModels returns the core models and the custom models of the
\* files that load; under the key of a custom model is a custom definition
\* (name, description, steps, category, priority), also where a core model has
\* that key; the core models with other keys are as they are in the core
C27_CustomOverridesCore ==
    \A p \in Procs :
        Answered(p, "list_mental_models") =>
            LET files == LoadedFiles(loc[p].req.source)
                keys == UNION {DOMAIN f.models : f \in files}
                result == loc[p].req.availableModels
            IN  /\ DOMAIN result = DOMAIN MentalModels \cup keys
                /\ \A key \in keys :
                      \E f \in files :
                          key \in DOMAIN f.models /\ IsCustom(result[key], f.models[key])
                /\ \A key \in DOMAIN MentalModels \ keys :
                    /\ result[key].Name = MentalModels[key].Name
                    /\ result[key].Description = MentalModels[key].Description
                    /\ result[key].Steps = MentalModels[key].Steps
                    /\ result[key].Category = MentalModels[key].Category

\* C27: the catalog was loaded from a file with a custom first_principles and
\* holds the custom definition under that key
C27_Overridden ==
    \E p \in Procs :
        /\ Answered(p, "list_mental_models")
        /\ loc[p].req.source.kind = "file"
        /\ "first_principles" \in DOMAIN loc[p].req.source.models
        /\ loc[p].req.availableModels["first_principles"].Name = "Mine"
        /\ loc[p].req.availableModels["first_principles"].Priority = 2
        /\ loc[p].req.availableModels["first_principles"].Steps = <<"c1", "c2">>

C29_SortedAndGrouped ==
    \A p \in Procs :
        Answered(p, "list_mental_models") =>
            LET models == loc[p].req.availableModels
                sorted(l) ==
                    \A i, j \in 1..Len(l) : i < j =>
                        \/ l[i].Model.Priority > l[j].Model.Priority
                        \/ /\ l[i].Model.Priority = l[j].Model.Priority
                           /\ NameRank(l[i].Model.Name) <= NameRank(l[j].Model.Name)
                holds(l, keys) ==
                    /\ Len(l) = Cardinality(keys)
                    /\ {l[i].Key : i \in 1..Len(l)} = keys
                    /\ \A i \in 1..Len(l) : l[i].Model = models[l[i].Key]
                byPriority == loc[p].ret.models_by_priority
                byCategory == loc[p].ret.models_by_category
            IN  /\ holds(byPriority, DOMAIN models)
                /\ sorted(byPriority)
                /\ DOMAIN byCategory = {models[key].Category : key \in DOMAIN models}
                /\ \A c \in DOMAIN byCategory :
                    /\ holds(byCategory[c],
                             {key \in DOMAIN models : models[key].Category = c})
                    /\ sorted(byCategory[c])

\* C29: a listing of four models in three priorities, two of them tied, the
\* tie in the order of the names
C29_TieByName ==
    \E p \in Procs :
        /\ Answered(p, "list_mental_models")
        /\ Len(loc[p].ret.models_by_priority) = 4
        /\ loc[p].ret.models_by_priority[1].Key = "top_model"
        /\ loc[p].ret.models_by_priority[2].Model.Name = "Another Model"
        /\ loc[p].ret.models_by_priority[3].Model.Name = "My Model"
        /\ loc[p].ret.models_by_priority[4].Key = "first_principles"

\* C30: in a loaded catalog a custom model without a priority has priority 1,
\* a custom model with a priority written out has exactly that priority, and
\* a core model has priority 0
C30_PriorityDefaults ==
    \A p \in Procs :
        Answered(p, "list_mental_models") =>
            LET files == LoadedFiles(loc[p].req.source)
                keys == UNION {DOMAIN f.models : f \in files}
                result == loc[p].req.availableModels
            IN  /\ \A key \in keys :
                      \E f \in files :
                          /\ key \in DOMAIN f.models
                          /\ result[key].Priority =
                                 IF f.models[key].Priority.present
                                 THEN f.models[key].Priority.value ELSE 1
                /\ \A key \in DOMAIN MentalModels \ keys :
                      result[key].Priority = 0

\* C30: a custom model whose file writes the priority 0 is in the catalog with
\* priority 1
C30_ZeroBecameOne ==
    \E p \in Procs :
        /\ Answered(p, "list_mental_models")
        /\ loc[p].req.source.kind = "file"
        /\ \E key \in DOMAIN loc[p].req.source.models :
              /\ loc[p].req.source.models[key].Priority = [present |-> TRUE, value |-> 0]
              /\ loc[p].req.availableModels[key].Priority = 1

\* C31: when GOTHINK_MAX_THOUGHTS_PER_SESSION is set to n, the configured cap is
\* n and no session record counts more than n thoughts; when it is unset (and
\* no configuration file is named) the cap is 100
C31_CapFromEnvironment ==
    LET set == environ.GOTHINK_MAX_THOUGHTS_PER_SESSION
        n == IF set = "1" THEN 1 ELSE 2
    IN  /\ set # "" =>
            /\ cfgMax = n
            /\ \A i \in 1..Len(heap) : heap[i].ThoughtCount <= n
        /\ (set = "" /\ environ.GOTHINK_CONFIG = <<>>) => cfgMax = DefaultMaxThoughts

\* C31: in a process started with GOTHINK_MAX_THOUGHTS_PER_SESSION=1 and no
\* configuration file a session has taken its second thought
C31_SecondThoughtTaken ==
    /\ environ.GOTHINK_MAX_THOUGHTS_PER_SESSION = "1"
    /\ environ.GOTHINK_CONFIG = <<>>
    /\ \E p \in Procs :
          /\ Answered(p, "sequential_thinking")
          /\ loc[p].sid = "s1"
          /\ loc[p].ret.kind = "thought_response"
          /\ Record("s1").ThoughtCount = 2

\* C32: a caller of AddThought or AddMentalModel that is about to update the
\* session record (thought count, last access) and to write the session map
\* holds the session lock exclusively
C32_SessionWritesLocked ==
    \A p \in Procs : pc[p] \in {"AT_update", "AM_update"} => sessionsMutex.w = p

\* C32: an AddThought and an AddMentalModel are both about to update the
\* record of one session and to write the session map, and the session lock
\* is free
C32_BothWriting ==
    \E p, q \in Procs :
        /\ pc[p] = "AT_update"
        /\ pc[q] = "AM_update"
        /\ loc[p].sid = loc[q].sid
        /\ loc[p].sess = loc[q].sess
        /\ sessionsMutex = FreeMutex

C34_PointInTime ==
    \A p \in Procs :
        Answered(p, "GetSessionStats") =>
            <<loc[p].ret.Stores.thoughts, loc[p].ret.Stores.mental_models>>
                \in {<<0, 0>>, <<1, 0>>, <<1, 1>>}

\* C34: the statistics report no thought and one application, and the thought
\* was appended before the application
C34_TornStatistics ==
    \E p \in Procs :
        /\ Answered(p, "GetSessionStats")
        /\ loc[p].ret.ThoughtCount = 0
        /\ loc[p].ret.Stores.mental_models = 1
        /\ loc[p].ret.TotalOperations = 1
        /\ Len(histT["s1"]) = 1
        /\ Len(histM["s1"]) = 1

\* C35: when an append to a session has returned with success, the session's
\* record has counted it in TotalOperations
C35_TotalOperationsCounts ==
    \A p \in Procs :
        \/ Answered(p, "AddMentalModel")
        \/ Answered(p, "handleSequentialThinking") /\ loc[p].ret.kind = "thought_response"
        => Record(loc[p].sid).TotalOperations >= 1

\* C35: a thought and an application have been appended to a session whose
\* record was never replaced, and its TotalOperations is 0
C35_AppendsUncounted ==
    \E p \in Procs :
        /\ Answered(p, "AddMentalModel")
        /\ Len(histT[loc[p].sid]) = 1
        /\ Len(histM[loc[p].sid]) = 1
        /\ Len(heap) = 1
        /\ Record(loc[p].sid).ThoughtCount = 1
        /\ Record(loc[p].sid).TotalOperations = 0

\* C36: the steps of AddThought up to a refusal (locking, getSession, the
\* refusing limit test) change no thought, no application and no session
\* record there is, thought count and last access included, and leave every
\* session with its record
C36_RefusedChangesNothing ==
    [][\A p \in Procs :
        LET before == \/ pc[p] = "AT_lock"
                      \/ pc[p] \in {"gs_lock", "gs_body"} /\ Head(stk[p]) = "AT_check"
            refusing == pc[p] = "AT_check" /\ loc'[p].err = "thought limit reached"
        IN  ((before \/ refusing) /\ pc'[p] # pc[p]) =>
                /\ thoughts' = thoughts
                /\ mentalModels' = mentalModels
                /\ \A i \in 1..Len(heap) : heap'[i] = heap[i]
                /\ \A s \in DOMAIN sessions : sessions'[s] = sessions[s]]_vars

\* C36: a thought was refused on a session at its cap, whose record was last
\* accessed before the refused call
C36_RefusedUntouched ==
    \E p \in Procs :
        /\ Answered(p, "handleSequentialThinking")
        /\ loc[p].ret.kind = "error"
        /\ cfgMax = 1
        /\ Record(loc[p].sid).ThoughtCount = 1
        /\ Record(loc[p].sid).LastAccessedAt = 0
        /\ loc[p].rec.CreatedAt = 1

\* C37: AddThought refuses a thought only when the record of the thought's own
\* session counts as many thoughts as the cap or more; the counts of the other
\* sessions do not matter
C37_OwnCountDecides ==
    \A p \in Procs :
        loc[p].err = "thought limit reached" =>
            /\ loc[p].sess = sessions[loc[p].sid]
            /\ Record(loc[p].sid).ThoughtCount >= cfgMax

\* C37: a thought was taken on a session while another session is at its cap
C37_TakenBesideFullSession ==
    \E p \in Procs, a \in SessionIDs :
        /\ Answered(p, "handleSequentialThinking")
        /\ loc[p].ret.kind = "thought_response"
        /\ a # loc[p].sid
        /\ a \in DOMAIN sessions
        /\ cfgMax = 1
        /\ Record(a).ThoughtCount = cfgMax
        /\ Len(histT[a]) = 1
        /\ Len(histT[loc[p].sid]) = 1

\* C38: CreateSession on an identifier that has a session puts a new record
\* with ThoughtCount 0 and the creation time of the call in its place and
\* leaves the thoughts and applications stored; AddThought takes a thought
\* whenever the record of the session counts fewer thoughts than the cap,
\* however many thoughts of the session are stored
C38_RecreateResetsCount ==
    [][\A p \in Procs :
        /\ (pc[p] = "CS_body" /\ pc'[p] # pc[p] /\ loc[p].sid \in DOMAIN sessions) =>
            /\ sessions'[loc[p].sid] \notin 1..Len(heap)
            /\ heap'[sessions'[loc[p].sid]].ThoughtCount = 0
            /\ heap'[sessions'[loc[p].sid]].CreatedAt = now'
            /\ thoughts' = thoughts
            /\ mentalModels' = mentalModels
        /\ (pc[p] = "AT_check" /\ pc'[p] # pc[p]
                /\ heap[sessions[loc[p].sid]].ThoughtCount < cfgMax) =>
            /\ pc'[p] = "AT_update"
            /\ loc'[p].rec.ID \in DOMAIN thoughts'
            /\ thoughts'[loc'[p].rec.ID] = loc'[p].rec]_vars

\* C38: under the cap 1 a session that was created anew holds two thoughts
C38_BeyondCap ==
    /\ cfgMax = 1
    /\ Len(histT["s1"]) = 2
    /\ Cardinality(DOMAIN thoughts) = 2
    /\ Len(heap) = 2
    /\ Record("s1").ThoughtCount = 1
    /\ \E p \in Procs :
          Answered(p, "handleSequentialThinking") /\ loc[p].ret.kind = "thought_response"

\* C39: a custom models file is refused by validateModels exactly when one of
\* its models has a name, description or category that is empty or blank, has
\* no steps or has a step that is empty or blank; a file that is not refused
\* is loaded as written, but for the priority 1 in place of the priority 0
C39_ValidationExact ==
    \A p \in Procs :
        (Answered(p, "list_mental_models") /\ loc[p].req.source.kind = "file") =>
            LET given == loc[p].req.source.models
                result == loc[p].req.availableModels
                blank(str) == str = "" \/ str = " "
                bad(m) == \/ blank(m.Name)
                          \/ blank(m.Description)
                          \/ blank(m.Category)
                          \/ m.Steps = <<>>
                          \/ \E i \in 1..Len(m.Steps) : blank(m.Steps[i])
                parsed(m) == IF m.Priority.present THEN m.Priority.value ELSE 0
            IN  IF \E key \in DOMAIN given : bad(given[key])
                THEN /\ DOMAIN result = DOMAIN MentalModels
                     /\ \A key \in DOMAIN result :
                          /\ result[key].Name = MentalModels[key].Name
                          /\ result[key].Priority = 0
                ELSE \A key \in DOMAIN given :
                        result[key] =
                            [Name |-> given[key].Name,
                             Description |-> given[key].Description,
                             Steps |-> given[key].Steps,
                             Category |-> given[key].Category,
                             Priority |-> IF parsed(given[key]) = 0 THEN 1
                                          ELSE parsed(given[key])]

\* C39: a file whose model has a name of spaces was refused, and the catalog
\* holds the core models alone
C39_BlankNameRefused ==
    \E p \in Procs :
        /\ Answered(p, "list_mental_models")
        /\ loc[p].req.source.kind = "file"
        /\ "my_model" \in DOMAIN loc[p].req.source.models
        /\ loc[p].req.source.models["my_model"].Name = " "
        /\ "my_model" \notin DOMAIN loc[p].req.availableModels
        /\ loc[p].ret.total_models = 1

====
